---- MODULE Spec2Model ----
(***************************************************************************)
(* Model of the waste-hotspot clustering service:                          *)
(*   agent 1/clustering/ClusteringEngine.js  (ClusteringEngine)            *)
(*   agent 1/models/Hotspot.js, Cluster.js   (mongoose documents)          *)
(*   agent 1/routes/clustering.js            (express handlers)            *)
(*                                                                         *)
(* Numbers.  Coordinates are integers in units of 0.005 degree, so the     *)
(* default eps of 0.01 degree is 2 units.  Severities, means and centroid  *)
(* coordinates are exact rationals [num, den] (den > 0); floating-point    *)
(* rounding error is not modelled.  Array indices are 1-based here         *)
(* (JavaScript index i is i + 1), cluster ids stay 0-based, -1 is noise.   *)
(* A JavaScript value that may be undefined is a sequence of length 0      *)
(* (undefined) or 1 (the value).                                           *)
(***************************************************************************)
EXTENDS Integers, Sequences, FiniteSets, TLC

\* Longest hotspot list handed to runClustering in the engine specification.
MaxHotspots == 3

\* Most hotspot and cluster documents the service specification creates,
\* and the HTTP requests it has in flight at once.
MaxHotspotId == 2

MaxClusterId == 2

MaxRequests == 2

VARIABLES
  hotspots,      \* runClustering's argument: the list of hotspot documents
  options,       \* runClustering's argument: the options object
  result,        \* what the call returned (or that it threw)
  phase,         \* "building" the input, or "done" once runClustering returned
  earlier,       \* of a caller that calls twice: the first call's outcome
  dbHotspots,    \* the Hotspot collection: a set of documents
  dbClusters,    \* the Cluster collection: a set of documents
  nextHotspotId, \* the next Hotspot _id
  nextClusterId, \* the next Cluster _id
  reqs,          \* the HTTP requests in flight, by connection
  trip,          \* a call of the route optimizer: its arguments and its route
  hotspotDoc,    \* a Hotspot document in memory and its save() in progress
  form           \* the submission form's fields and validateForm's answer

engineVars == <<hotspots, options, result, phase, earlier>>

dbVars == <<dbHotspots, dbClusters, nextHotspotId, nextClusterId, reqs>>
storeVars == <<dbHotspots, dbClusters, nextHotspotId, nextClusterId>>

\* The state of the route optimizer, of the document being saved and of the
\* submission form: none of them is touched by the engine or the routes.
otherVars == <<trip, hotspotDoc, form>>

vars == <<hotspots, options, result, phase, earlier,
          dbHotspots, dbClusters, nextHotspotId, nextClusterId, reqs,
          trip, hotspotDoc, form>>

\* No route asked for yet.
NoTrip ==
  [nodes |-> <<>>, start |-> <<>>, called |-> FALSE, baseline |-> <<>>,
   route |-> <<>>, total_distance_m |-> 0]

\* No hotspot document in a handler's hands: nothing constructed, nothing
\* modified, no save() in progress.  hotspot and stored are <<>> or <<h>>.
NoDocument ==
  [hotspot |-> <<>>, stored |-> <<>>, modified |-> {}, saving |-> FALSE,
   pc |-> "idle", saves |-> 0, hooks |-> 0, rejected |-> 0]

\* The submission form as it opens, without defaultLocation: coordinates in
\* units of 0.0001 degree (37.7749, -122.4194), the texts empty, no error
\* shown, handleSubmit not yet called.
NoForm ==
  [lat |-> 377749, lng |-> -1224194, severity |-> 5, description |-> "",
   reporterName |-> "", reporterEmail |-> "", errors |-> {},
   validated |-> FALSE, submitted |-> FALSE]

OtherInit == trip = NoTrip /\ hotspotDoc = NoDocument /\ form = NoForm

---------------------------------------------------------------------------
(* Exact rationals *)

Rat(n, d) == [num |-> n, den |-> d]

RatAdd(a, b) == [num |-> a.num * b.den + b.num * a.den, den |-> a.den * b.den]

RatSub(a, b) == [num |-> a.num * b.den - b.num * a.den, den |-> a.den * b.den]

RatMul(a, b) == [num |-> a.num * b.num, den |-> a.den * b.den]

RatEq(a, b) == a.num * b.den = b.num * a.den

RatLe(a, b) == a.num * b.den <= b.num * a.den

RatLt(a, b) == a.num * b.den < b.num * a.den

RatScale(k, a) == [num |-> k * a.num, den |-> a.den]

RatDivInt(a, n) == [num |-> a.num, den |-> a.den * n]

\* Math.round: the nearest integer, halves towards +Infinity (x >= 0 here).
MathRound(a) == (2 * a.num + a.den) \div (2 * a.den)

RECURSIVE RatSum(_)
RatSum(s) == IF Len(s) = 0 THEN Rat(0, 1) ELSE RatAdd(Head(s), RatSum(Tail(s)))

RECURSIVE IntSum(_)
IntSum(s) == IF Len(s) = 0 THEN 0 ELSE Head(s) + IntSum(Tail(s))

RECURSIVE RatMax(_)
RatMax(s) ==
  IF Len(s) = 1 THEN s[1]
  ELSE LET m == RatMax(Tail(s)) IN IF RatLt(Head(s), m) THEN m ELSE Head(s)

RECURSIVE RatMin(_)
RatMin(s) ==
  IF Len(s) = 1 THEN s[1]
  ELSE LET m == RatMin(Tail(s)) IN IF RatLt(m, Head(s)) THEN m ELSE Head(s)

Map(f(_), s) == [i \in 1..Len(s) |-> f(s[i])]

\* The largest r in lo..hi with r * r <= n.
RECURSIVE ISqrtIn(_, _, _)
ISqrtIn(n, lo, hi) ==
  IF lo >= hi THEN lo
  ELSE LET mid == (lo + hi + 1) \div 2
       IN IF mid * mid <= n THEN ISqrtIn(n, mid, hi) ELSE ISqrtIn(n, lo, mid - 1)

\* Math.sqrt, to the integer below (of arguments below 46340 squared).
ISqrt(n) ==
  ISqrtIn(n, 0, IF n < 2 THEN n
                ELSE IF n < 1024 THEN 31
                ELSE IF n < 1048576 THEN 1023
                ELSE 46340)

---------------------------------------------------------------------------
(* Hotspot documents (models/Hotspot.js) *)

\* The virtual calculated_severity: base_severity without reports, else
\* 0.7 * base_severity + 0.3 * (mean of the reports' severity_score).
calculated_severity(h) ==
  LET n == Len(h.typical_reports) IN
  IF n = 0 THEN Rat(h.base_severity, 1)
  ELSE Rat(7 * h.base_severity * n
             + 3 * IntSum([i \in 1..n |-> h.typical_reports[i].severity_score]),
           10 * n)

\* The risk level updateEnvironmentalMetrics derives from calculated_severity.
RiskLevel(sev) ==
  IF RatLe(Rat(8, 1), sev) THEN "critical"
  ELSE IF RatLe(Rat(6, 1), sev) THEN "high"
  ELSE IF RatLe(Rat(4, 1), sev) THEN "medium"
  ELSE "low"

\* updateEnvironmentalMetrics: the document with its metrics recomputed.
updateEnvironmentalMetrics(h) ==
  [h EXCEPT !.environmental_metrics =
     [water_pollution_risk |-> RiskLevel(calculated_severity(h)),
      air_quality_impact   |-> RiskLevel(calculated_severity(h))]]

\* A new document with the schema defaults.  hasCoordinates tells that the
\* document holds coordinates.coordinates at all.
NewHotspot(id, coord, sev, wt, reports) ==
  [id |-> id, hasCoordinates |-> TRUE,
   lng |-> coord[1], lat |-> coord[2], base_severity |-> sev,
   waste_type |-> wt, typical_reports |-> reports,
   environmental_metrics |->
     [water_pollution_risk |-> "low", air_quality_impact |-> "low"],
   cluster_id |-> <<>>, status |-> "active"]

---------------------------------------------------------------------------
(* ClusteringEngine.js: helpers *)

\* prepareCoordinates: [longitude, latitude] of every hotspot.
prepareCoordinates(hs) == [i \in 1..Len(hs) |-> <<hs[i].lng, hs[i].lat>>]

\* prepareCoordinates reads hotspot.coordinates.coordinates[0] of every
\* hotspot: a TypeError for a hotspot without coordinates.
prepareCoordinatesThrows(hs) == \E i \in 1..Len(hs) : ~hs[i].hasCoordinates

\* h.calculated_severity || h.base_severity: 0 is falsy.
SeverityOf(h) ==
  IF calculated_severity(h).num # 0 THEN calculated_severity(h)
  ELSE Rat(h.base_severity, 1)

\* The metres of one coordinate unit (0.005 degrees) along a great circle of
\* the Earth of radius R = 6371e3: R * 0.005 * PI / 180, to the metre.
MetersPerUnit == 556

\* calculateDistance: the haversine distance in whole metres.  The model's
\* places lie within a few hundredths of a degree of latitude 0 and of one
\* another, where cos(lat1) * cos(lat2) is 1 and sin and atan2 are the
\* identity to seven digits, so that R * c is R * sqrt(dLat^2 + dLon^2).
\* The root is taken to a hundredth of a unit.
calculateDistance(lat1, lon1, lat2, lon2) ==
  LET dLat == RatSub(lat2, lat1)
      dLon == RatSub(lon2, lon1)
      a    == RatAdd(RatMul(dLat, dLat), RatMul(dLon, dLon))
      c    == ISqrt((a.num * 10000) \div a.den)
  IN (MetersPerUnit * c) \div 100

\* calculateClusterRadius returning the distance to the last point.
RECURSIVE calculateClusterRadius_LastPoint(_, _)
calculateClusterRadius_LastPoint(points, centroid) ==
  IF Len(points) = 0 THEN 0
  ELSE calculateDistance(centroid.lat, centroid.lng,
                         Rat(points[Len(points)][2], 1),
                         Rat(points[Len(points)][1], 1))

\* calculateClusterRadius: the largest distance from the centroid to a point,
\* 0 without points.
RECURSIVE calculateClusterRadius(_, _)
calculateClusterRadius(points, centroid) ==
  IF Len(points) = 0 THEN 0
  ELSE LET distance == calculateDistance(centroid.lat, centroid.lng,
                                         Rat(Head(points)[2], 1),
                                         Rat(Head(points)[1], 1))
           maxDistance == calculateClusterRadius(Tail(points), centroid)
       IN IF distance > maxDistance THEN distance ELSE maxDistance

\* calculateCentroid with the longitude sum left undivided.
calculateCentroid_LngNotDivided(points) ==
  IF Len(points) = 0 THEN [lng |-> Rat(0, 1), lat |-> Rat(0, 1)]
  ELSE [lng |-> Rat(IntSum([i \in 1..Len(points) |-> points[i][1]]), 1),
        lat |-> Rat(IntSum([i \in 1..Len(points) |-> points[i][2]]), Len(points))]

\* calculateCentroid: the arithmetic mean of the points, [0, 0] of none.
calculateCentroid(points) ==
  IF Len(points) = 0 THEN [lng |-> Rat(0, 1), lat |-> Rat(0, 1)]
  ELSE [lng |-> Rat(IntSum([i \in 1..Len(points) |-> points[i][1]]), Len(points)),
        lat |-> Rat(IntSum([i \in 1..Len(points) |-> points[i][2]]), Len(points))]

\* The values of a list, in order of first occurrence (a Map's key order).
RECURSIVE KeysInOrder(_)
KeysInOrder(s) ==
  IF Len(s) = 0 THEN <<>>
  ELSE LET front == SubSeq(s, 1, Len(s) - 1)
           keys  == KeysInOrder(front)
       IN IF \E i \in 1..Len(front) : front[i] = s[Len(s)]
          THEN keys ELSE Append(keys, s[Len(s)])

\* The indices i of labels with labels[i] = id, ascending.
RECURSIVE IndicesOf(_, _)
IndicesOf(labels, id) ==
  IF Len(labels) = 0 THEN <<>>
  ELSE LET front == IndicesOf(SubSeq(labels, 1, Len(labels) - 1), id)
       IN IF labels[Len(labels)] = id THEN Append(front, Len(labels)) ELSE front

UndefinedStatistics ==
  [defined |-> FALSE, totalHotspots |-> 0, averageSeverity |-> Rat(0, 1),
   maxSeverity |-> Rat(0, 1), minSeverity |-> Rat(0, 1), priorityScore |-> 0]

\* A cluster object as the process*Results functions build it: name,
\* statistics and priorityLevel are set later, by postProcessClusters.
RawCluster(id, centroid, memberIndices, radius, alg) ==
  [id |-> id, centroid |-> centroid, memberIndices |-> memberIndices,
   radius |-> radius, size |-> Len(memberIndices), algorithm |-> alg,
   name |-> <<>>, statistics |-> UndefinedStatistics, priorityLevel |-> <<>>]

---------------------------------------------------------------------------
(* The density pass (ml-dbscan as runDBSCAN calls it): a point is a core   *)
(* point when at least minPoints points, itself included, lie within eps   *)
(* (euclidean, on the raw [lng, lat] pairs); core points within eps of one *)
(* another share a cluster; a non-core point within eps of a core point    *)
(* joins the first cluster that reaches it; every other point is noise.    *)

Dist2(p, q) == (p[1] - q[1]) * (p[1] - q[1]) + (p[2] - q[2]) * (p[2] - q[2])

\* The neighbourhood of a haversine test with eps read as meters: two
\* different places of the grid are more than 500 m apart, an eps of a few
\* hundredths of a meter reaches only the points at the same place.
Neighbors_EpsInMeters(coords, i, eps) ==
  {j \in 1..Len(coords) : eps >= 0 /\ Dist2(coords[i], coords[j]) = 0}

\* distance: euclidean, on the [lng, lat] pairs in degrees.
Neighbors(coords, i, eps) ==
  {j \in 1..Len(coords) : eps >= 0 /\ Dist2(coords[i], coords[j]) <= eps * eps}

CorePoints(coords, eps, minPoints) ==
  {i \in 1..Len(coords) : Cardinality(Neighbors(coords, i, eps)) >= minPoints}

RECURSIVE CoreClosure(_, _, _, _)
CoreClosure(S, coords, eps, minPoints) ==
  LET T == S \cup {j \in CorePoints(coords, eps, minPoints) :
                     \E i \in S : j \in Neighbors(coords, i, eps)}
  IN IF T = S THEN S ELSE CoreClosure(T, coords, eps, minPoints)

SetMin(S) == CHOOSE x \in S : \A y \in S : x <= y

\* The first core point of the cluster core point i belongs to.
CoreLeader(i, coords, eps, minPoints) ==
  SetMin(CoreClosure({i}, coords, eps, minPoints))

\* Cluster ids count the clusters in the order the scan opens them.
CoreClusterId(i, coords, eps, minPoints) ==
  Cardinality({CoreLeader(j, coords, eps, minPoints) :
                 j \in {c \in CorePoints(coords, eps, minPoints) :
                          CoreLeader(c, coords, eps, minPoints)
                            < CoreLeader(i, coords, eps, minPoints)}})

\* dbscan.clusters: the cluster id of every point, -1 for noise.
DBSCANLabels(coords, eps, minPoints) ==
  [i \in 1..Len(coords) |->
     LET core == CorePoints(coords, eps, minPoints)
         near == Neighbors(coords, i, eps) \cap core
     IN IF i \in core THEN CoreClusterId(i, coords, eps, minPoints)
        ELSE IF near = {} THEN -1
        ELSE SetMin({CoreClusterId(c, coords, eps, minPoints) : c \in near})]

\* dbscan.noise: the indices of the noise points.
DBSCANNoise(labels) == {i \in 1..Len(labels) : labels[i] = -1}

\* processDBSCANResults: one cluster per cluster id, noise points skipped.
processDBSCANResults(labels, coordinates) ==
  LET kept == SelectSeq(KeysInOrder(labels), LAMBDA id : id # -1)
  IN [n \in 1..Len(kept) |->
        LET idx == IndicesOf(labels, kept[n])
            clusterPoints == [m \in 1..Len(idx) |-> coordinates[idx[m]]]
            centroid == calculateCentroid(clusterPoints)
        IN RawCluster(kept[n], centroid, idx,
                      calculateClusterRadius(clusterPoints, centroid), "dbscan")]

\* processKMeansResults: one cluster per centroid that has members; the
\* centroid is the library's.
processKMeansResults(labels, centroids, coordinates) ==
  LET ids  == [c \in 1..Len(centroids) |-> c - 1]
      kept == SelectSeq(ids, LAMBDA id : Len(IndicesOf(labels, id)) # 0)
  IN [n \in 1..Len(kept) |->
        LET idx == IndicesOf(labels, kept[n])
            clusterPoints == [m \in 1..Len(idx) |-> coordinates[idx[m]]]
            centroid == centroids[kept[n] + 1]
        IN RawCluster(kept[n], centroid, idx,
                      calculateClusterRadius(clusterPoints, centroid), "kmeans")]

\* processHierarchicalResults: one cluster per label of the cut.
processHierarchicalResults(labels, coordinates) ==
  LET kept == KeysInOrder(labels)
  IN [n \in 1..Len(kept) |->
        LET idx == IndicesOf(labels, kept[n])
            clusterPoints == [m \in 1..Len(idx) |-> coordinates[idx[m]]]
            centroid == calculateCentroid(clusterPoints)
        IN RawCluster(kept[n], centroid, idx,
                      calculateClusterRadius(clusterPoints, centroid),
                      "hierarchical")]

---------------------------------------------------------------------------
(* ClusteringEngine.js: statistics and post-processing *)

\* The days since the latest report (the smallest age among the reports).
LatestReportAge(h) ==
  SetMin({h.typical_reports[i].ageDays : i \in 1..Len(h.typical_reports)})

\* One hotspot's share of calculateClusterPriorityScore's sum.
HotspotPriorityShare(h) ==
  LET wasteBonus == IF h.waste_type \in {"medical", "electronic", "industrial"}
                    THEN 10 ELSE 0
      waterBonus == IF h.environmental_metrics.water_pollution_risk = "critical"
                    THEN 8 ELSE 0
      airBonus   == IF h.environmental_metrics.air_quality_impact = "critical"
                    THEN 8 ELSE 0
      recent     == IF Len(h.typical_reports) = 0 THEN 0
                    ELSE IF LatestReportAge(h) <= 1 THEN 5
                    ELSE IF LatestReportAge(h) <= 7 THEN 3
                    ELSE 0
  IN RatAdd(RatScale(2, SeverityOf(h)),
            Rat(wasteBonus + waterBonus + airBonus + recent, 1))

\* calculateClusterPriorityScore: Math.min(100, Math.round(score)).
calculateClusterPriorityScore(memberHotspots) ==
  LET score == MathRound(RatSum(Map(HotspotPriorityShare, memberHotspots)))
  IN IF score < 100 THEN score ELSE 100

\* calculateClusterStatistics (the waste and CO2 totals are left out).
calculateClusterStatistics(memberHotspots) ==
  IF Len(memberHotspots) = 0
  THEN [defined |-> TRUE, totalHotspots |-> 0, averageSeverity |-> Rat(0, 1),
        maxSeverity |-> Rat(0, 1), minSeverity |-> Rat(0, 1), priorityScore |-> 0]
  ELSE LET severities == Map(SeverityOf, memberHotspots)
       IN [defined         |-> TRUE,
           totalHotspots   |-> Len(memberHotspots),
           averageSeverity |-> RatDivInt(RatSum(severities), Len(severities)),
           maxSeverity     |-> RatMax(severities),
           minSeverity     |-> RatMin(severities),
           priorityScore   |-> calculateClusterPriorityScore(memberHotspots)]

\* calculatePriorityLevel with > where the code has >=.
calculatePriorityLevel_StrictEdges(statistics) ==
  IF statistics.priorityScore > 80 THEN "critical"
  ELSE IF statistics.priorityScore > 60 THEN "high"
  ELSE IF statistics.priorityScore > 40 THEN "medium"
  ELSE "low"

\* calculatePriorityLevel: bucketed from the priority score.
calculatePriorityLevel(statistics) ==
  IF statistics.priorityScore >= 80 THEN "critical"
  ELSE IF statistics.priorityScore >= 60 THEN "high"
  ELSE IF statistics.priorityScore >= 40 THEN "medium"
  ELSE "low"

\* cluster.memberHotspots: the hotspots at the cluster's memberIndices.
MemberHotspots(cluster, hs) ==
  [m \in 1..Len(cluster.memberIndices) |-> hs[cluster.memberIndices[m]]]

\* postProcessClusters without its sort.
SortBySizeDesc_Unsorted(cs) == cs

\* Array.prototype.sort((a, b) => b.size - a.size): stable, largest first.
RECURSIVE SortBySizeDesc(_)
SortBySizeDesc(cs) ==
  IF Len(cs) <= 1 THEN cs
  ELSE LET front  == SortBySizeDesc(SubSeq(cs, 1, Len(cs) - 1))
           last   == cs[Len(cs)]
           before == SelectSeq(front, LAMBDA c : c.size >= last.size)
           after  == SelectSeq(front, LAMBDA c : c.size < last.size)
       IN before \o <<last>> \o after

\* Clusters ordered by descending priority score, stable.
RECURSIVE SortByPriorityDesc(_, _)
SortByPriorityDesc(cs, hs) ==
  IF Len(cs) <= 1 THEN cs
  ELSE LET score(c) == calculateClusterPriorityScore(MemberHotspots(c, hs))
           front  == SortByPriorityDesc(SubSeq(cs, 1, Len(cs) - 1), hs)
           last   == cs[Len(cs)]
           before == SelectSeq(front, LAMBDA c : score(c) >= score(last))
           after  == SelectSeq(front, LAMBDA c : score(c) < score(last))
       IN before \o <<last>> \o after

\* postProcessClusters sorting by priority score instead of size.
postProcessClusters_SortByPriority(clusters, hs, algorithm) ==
  LET sorted == SortByPriorityDesc(clusters, hs)
  IN [i \in 1..Len(sorted) |->
        LET stats == calculateClusterStatistics(MemberHotspots(sorted[i], hs))
        IN [sorted[i] EXCEPT !.name = <<"Cluster", i>>,
                             !.algorithm = algorithm,
                             !.statistics = stats,
                             !.priorityLevel = <<calculatePriorityLevel(stats)>>]]

\* postProcessClusters: sort by size, then name each cluster and attach its
\* statistics and priority level.
postProcessClusters(clusters, hs, algorithm) ==
  LET sorted == SortBySizeDesc(clusters)
  IN [i \in 1..Len(sorted) |->
        LET stats == calculateClusterStatistics(MemberHotspots(sorted[i], hs))
        IN [sorted[i] EXCEPT !.name = <<"Cluster", i>>,
                             !.algorithm = algorithm,
                             !.statistics = stats,
                             !.priorityLevel = <<calculatePriorityLevel(stats)>>]]

---------------------------------------------------------------------------
(* ClusteringEngine.js: runClustering and the three algorithms *)

SupportedAlgorithms == {"dbscan", "kmeans", "hierarchical"}

\* x of an optional value <<x>>, the default d of <<>>.
OrDefault(opt, d) == IF Len(opt) = 0 THEN d ELSE opt[1]

CeilDiv(a, b) == (a + b - 1) \div b

Min2(a, b) == IF a < b THEN a ELSE b

\* runDBSCAN's defaults: eps = 0.01 degree (2 units of 0.005), minPoints = 2.
DefaultEps == 2

DefaultMinPoints == 2

\* runClustering's default minClusterSize.
DefaultMinClusterSize == 2

\* runKMeans' k: parameters.k, else Math.min(5, Math.ceil(n / 3)).
KMeansK(parameters, n) == OrDefault(parameters.k, Min2(5, CeilDiv(n, 3)))

\* runHierarchicalClustering's maxClusters: parameters.maxClusters, else
\* Math.min(8, Math.ceil(n / 2)).
HierarchicalMaxClusters(parameters, n) ==
  OrDefault(parameters.maxClusters, Min2(8, CeilDiv(n, 2)))

\* kmeansResult.centroids for an assignment: the mean of every centroid's
\* points (the centre ml-kmeans moves a centroid to).
KMeansCentroids(labels, coordinates, k) ==
  [c \in 1..k |->
     LET idx == IndicesOf(labels, c - 1)
     IN calculateCentroid([m \in 1..Len(idx) |-> coordinates[idx[m]]])]

\* What the library call of the chosen algorithm can return for these
\* inputs.  ml-dbscan is deterministic.  ml-kmeans rejects a k above the
\* number of points and otherwise assigns every point one of k centroids;
\* the cut of the ml-hclust tree gives every point one of at most
\* maxClusters labels.  Which assignment the libraries pick is theirs, and
\* so is what ml-dbscan makes of a negative eps or of a minPoints below 1,
\* which runDBSCAN hands over unchecked: it may reject them or scan with them.
LibraryOutcomes(hs, opts) ==
  LET coordinates == prepareCoordinates(hs)
      n == Len(hs)
  IN IF opts.algorithm = "dbscan"
     THEN {[threw |-> FALSE,
            labels |-> DBSCANLabels(coordinates,
                                    OrDefault(opts.parameters.eps, DefaultEps),
                                    OrDefault(opts.parameters.minPoints,
                                              DefaultMinPoints))]}
          \cup (IF \/ OrDefault(opts.parameters.eps, DefaultEps) < 0
                   \/ OrDefault(opts.parameters.minPoints, DefaultMinPoints) < 1
                THEN {[threw |-> TRUE, labels |-> <<>>]}
                ELSE {})
     ELSE IF opts.algorithm = "kmeans"
     THEN IF KMeansK(opts.parameters, n) > n \/ KMeansK(opts.parameters, n) < 1
          THEN {[threw |-> TRUE, labels |-> <<>>]}
          ELSE {[threw |-> FALSE, labels |-> l] :
                  l \in [1..n -> 0..(KMeansK(opts.parameters, n) - 1)]}
     ELSE IF opts.algorithm = "hierarchical"
     THEN {[threw |-> FALSE, labels |-> l] :
             l \in [1..n -> 0..(HierarchicalMaxClusters(opts.parameters, n) - 1)]}
     ELSE {[threw |-> FALSE, labels |-> <<>>]}

\* The result of a call that threw.
Threw(alg) ==
  [threw |-> TRUE, algorithm |-> alg, clusters |-> <<>>, totalClusters |-> 0,
   noise |-> {}, invoked |-> "none"]

\* createSingleClusterResult without its case for an empty list.
createSingleClusterResult_NoEmptyCase(hs) ==
  [threw |-> FALSE, algorithm |-> "single",
   clusters |-> <<RawCluster(0, calculateCentroid(prepareCoordinates(hs)),
                             [i \in 1..Len(hs) |-> i],
                             calculateClusterRadius(prepareCoordinates(hs),
                               calculateCentroid(prepareCoordinates(hs))),
                             "single")>>,
   totalClusters |-> 1, noise |-> {}, invoked |-> "none"]

\* createSingleClusterResult: no cluster for no hotspot, else one cluster
\* holding every hotspot; no algorithm runs and nothing is post-processed.
createSingleClusterResult(hs) ==
  IF Len(hs) = 0
  THEN [threw |-> FALSE, algorithm |-> "none", clusters |-> <<>>,
        totalClusters |-> 0, noise |-> {}, invoked |-> "none"]
  ELSE [threw |-> FALSE, algorithm |-> "single",
        clusters |-> <<RawCluster(0, calculateCentroid(prepareCoordinates(hs)),
                                  [i \in 1..Len(hs) |-> i],
                                  calculateClusterRadius(prepareCoordinates(hs),
                                    calculateCentroid(prepareCoordinates(hs))),
                                  "single")>>,
        totalClusters |-> 1, noise |-> {}, invoked |-> "none"]

\* runDBSCAN / runKMeans / runHierarchicalClustering on the library's
\* outcome lib: the clusters before post-processing.
AlgorithmClusters(hs, opts, lib) ==
  LET coordinates == prepareCoordinates(hs)
  IN IF opts.algorithm = "dbscan"
     THEN processDBSCANResults(lib.labels, coordinates)
     ELSE IF opts.algorithm = "kmeans"
     THEN processKMeansResults(lib.labels,
            KMeansCentroids(lib.labels, coordinates,
                            KMeansK(opts.parameters, Len(hs))),
            coordinates)
     ELSE processHierarchicalResults(lib.labels, coordinates)

\* runClustering(hotspots, options), lib being what the library returned.
runClustering(hs, opts, lib) ==
  IF opts.algorithm \notin SupportedAlgorithms THEN Threw(opts.algorithm)
  ELSE IF prepareCoordinatesThrows(hs) THEN Threw(opts.algorithm)
  ELSE IF Len(prepareCoordinates(hs)) < opts.minClusterSize
  THEN createSingleClusterResult(hs)
  ELSE IF lib.threw THEN [Threw(opts.algorithm) EXCEPT !.invoked = opts.algorithm]
  ELSE LET raw == AlgorithmClusters(hs, opts, lib)
       IN [threw |-> FALSE, algorithm |-> opts.algorithm,
           clusters |-> postProcessClusters(raw, hs, opts.algorithm),
           totalClusters |-> Len(raw),
           noise |-> IF opts.algorithm = "dbscan" THEN DBSCANNoise(lib.labels)
                     ELSE {},
           invoked |-> opts.algorithm]

---------------------------------------------------------------------------
(* The engine specification: a caller builds a hotspot list, then calls    *)
(* runClustering once.                                                     *)

NoReports == <<>>

OneRecentReport == <<[severity_score |-> 10, ageDays |-> 0]>>

OneOldReport == <<[severity_score |-> 10, ageDays |-> 30]>>

\* The hotspot documents the caller may add, as <<[lng, lat], base_severity,
\* waste_type, typical_reports>>: two places within eps of one another and
\* one far from both, severities from 0 to 8, an ordinary and a critical
\* waste type, with and without a report.
HotspotChoices ==
  {<<<<0, 0>>, 8, "household", NoReports>>,
   <<<<0, 0>>, 0, "household", NoReports>>,
   <<<<0, 0>>, 4, "household", OneOldReport>>,
   <<<<1, 1>>, 4, "household", NoReports>>,
   <<<<1, 1>>, 8, "medical", NoReports>>,
   <<<<1, 1>>, 4, "household", OneRecentReport>>,
   <<<<9, 4>>, 8, "medical", NoReports>>}

NoParameters == [eps |-> <<>>, minPoints |-> <<>>, k |-> <<>>, maxClusters |-> <<>>]

\* The parameters objects a caller passes with each algorithm name.
ParameterChoices(algorithm) ==
  IF algorithm = "dbscan"
  THEN {NoParameters, [NoParameters EXCEPT !.minPoints = <<3>>]}
  ELSE IF algorithm = "kmeans"
  THEN {NoParameters, [NoParameters EXCEPT !.k = <<2>>]}
  ELSE {NoParameters}

OptionChoices ==
  {[algorithm |-> a, minClusterSize |-> m, parameters |-> p] :
     <<a, m, p>> \in
       {<<a, m, p>> \in (SupportedAlgorithms \cup {"optics"})
                          \X {1, DefaultMinClusterSize, 3}
                          \X {NoParameters,
                              [NoParameters EXCEPT !.minPoints = <<3>>],
                              [NoParameters EXCEPT !.k = <<2>>]} :
          p \in ParameterChoices(a)}}

NoResult ==
  [threw |-> FALSE, algorithm |-> "pending", clusters |-> <<>>,
   totalClusters |-> 0, noise |-> {}, invoked |-> "none"]

\* Before a first call: nothing returned, nothing asked of a library.
NoEarlier ==
  [result |-> NoResult, lib |-> [threw |-> FALSE, labels |-> <<>>], elapsed |-> 0]

EngineInit ==
  /\ hotspots = <<>>
  /\ options = [algorithm |-> "dbscan", minClusterSize |-> DefaultMinClusterSize,
                parameters |-> NoParameters]
  /\ result = NoResult
  /\ phase = "building"
  /\ earlier = NoEarlier
  /\ dbHotspots = {}
  /\ dbClusters = {}
  /\ nextHotspotId = 1
  /\ nextClusterId = 1
  /\ reqs = <<>>
  /\ OtherInit

\* The caller appends one stored hotspot document to the list.
AddHotspot ==
  /\ phase = "building"
  /\ Len(hotspots) < MaxHotspots
  /\ \E c \in HotspotChoices :
       hotspots' = Append(hotspots,
                          updateEnvironmentalMetrics(
                            NewHotspot(Len(hotspots) + 1, c[1], c[2], c[3], c[4])))
  /\ UNCHANGED <<options, result, phase, earlier>>
  /\ UNCHANGED <<dbVars, otherVars>>

\* await clusteringEngine.runClustering(hotspots, options)
CallRunClustering ==
  /\ phase = "building"
  /\ \E opts \in OptionChoices :
       \E lib \in LibraryOutcomes(hotspots, opts) :
         /\ options' = opts
         /\ result' = runClustering(hotspots, opts, lib)
  /\ phase' = "done"
  /\ UNCHANGED <<hotspots, earlier>>
  /\ UNCHANGED <<dbVars, otherVars>>

EngineNext == AddHotspot \/ CallRunClustering

SpecEngine == EngineInit /\ [][EngineNext]_vars

---------------------------------------------------------------------------
(* A caller who passes a configuration that cannot be meant.               *)

\* Options with a negative eps, with a minPoints below 1, and with an
\* algorithm name the engine does not know.
BadOptionChoices ==
  {[algorithm |-> a, minClusterSize |-> m, parameters |-> p] :
     <<a, m, p>> \in
       {<<"dbscan", 1, [NoParameters EXCEPT !.eps = <<-1>>]>>,
        <<"dbscan", DefaultMinClusterSize, [NoParameters EXCEPT !.eps = <<-1>>]>>,
        <<"dbscan", 1, [NoParameters EXCEPT !.minPoints = <<0>>]>>,
        <<"dbscan", 1, [NoParameters EXCEPT !.minPoints = <<-1>>]>>,
        <<"optics", 1, NoParameters>>}}

\* runClustering(hotspots, options) with such options.
CallMisconfigured ==
  /\ phase = "building"
  /\ \E opts \in BadOptionChoices :
       \E lib \in LibraryOutcomes(hotspots, opts) :
         /\ options' = opts
         /\ result' = runClustering(hotspots, opts, lib)
  /\ phase' = "done"
  /\ UNCHANGED <<hotspots, earlier>>
  /\ UNCHANGED <<dbVars, otherVars>>

MisconfiguredNext == AddHotspot \/ CallMisconfigured

SpecMisconfigured == EngineInit /\ [][MisconfiguredNext]_vars

---------------------------------------------------------------------------
(* A caller whose list may hold malformed hotspots.                        *)

\* The caller appends a hotspot object that has no coordinates.
AddMalformedHotspot ==
  /\ phase = "building"
  /\ Len(hotspots) < MaxHotspots
  /\ hotspots' = Append(hotspots,
                        [NewHotspot(Len(hotspots) + 1, <<0, 0>>, 4, "household",
                                    NoReports)
                           EXCEPT !.hasCoordinates = FALSE])
  /\ UNCHANGED <<options, result, phase, earlier>>
  /\ UNCHANGED <<dbVars, otherVars>>

MalformedNext == AddHotspot \/ AddMalformedHotspot \/ CallRunClustering

SpecMalformed == EngineInit /\ [][MalformedNext]_vars

---------------------------------------------------------------------------
(* A caller that calls runClustering twice with the same hotspots and the  *)
(* same options, the second time some days later.                          *)

\* Days between the two calls.
ElapsedDays == {0, 8}

\* The same hotspot documents seen days later: Date.now() has moved on, so
\* every report is that much older.
Later(hs, days) ==
  [i \in 1..Len(hs) |->
     [hs[i] EXCEPT !.typical_reports =
        [r \in 1..Len(hs[i].typical_reports) |->
           [hs[i].typical_reports[r] EXCEPT !.ageDays = @ + days]]]]

\* The first call.  What the library computes is kept: with the same input
\* (and, for k-means, the fixed seed 42) it computes the same again.
FirstCall ==
  /\ phase = "building"
  /\ Len(hotspots) < MaxHotspots
  /\ \E opts \in OptionChoices :
       \E lib \in LibraryOutcomes(hotspots, opts) :
         /\ options' = opts
         /\ result' = runClustering(hotspots, opts, lib)
         /\ earlier' = [NoEarlier EXCEPT !.lib = lib]
  /\ phase' = "called"
  /\ UNCHANGED hotspots
  /\ UNCHANGED <<dbVars, otherVars>>

\* The second call, with the same arguments.
SecondCall ==
  /\ phase = "called"
  /\ \E days \in ElapsedDays :
       /\ result' = runClustering(Later(hotspots, days), options, earlier.lib)
       /\ earlier' = [earlier EXCEPT !.result = result, !.elapsed = days]
  /\ phase' = "repeated"
  /\ UNCHANGED <<hotspots, options>>
  /\ UNCHANGED <<dbVars, otherVars>>

RepeatNext == AddHotspot \/ FirstCall \/ SecondCall

SpecRepeat == EngineInit /\ [][RepeatNext]_vars

---------------------------------------------------------------------------
(* routes/clustering.js: request validation and the database helpers *)

WasteTypes ==
  {"household", "commercial", "industrial", "street_litter", "market_waste",
   "construction", "medical", "electronic"}

HotspotStatuses == {"active", "cleared", "monitoring", "resolved"}

\* The algorithm names the Cluster schema's enum admits.
ClusterAlgorithmEnum == {"dbscan", "kmeans", "hierarchical", "manual"}

\* A query string, by the keys it may hold (<<>>: the key is absent).
NoQuery == [algorithm |-> <<>>, forceRecluster |-> <<>>, status |-> <<>>]

\* clusteringOptionsSchema.validate(req.query): a key the schema does not
\* name is an error; absent keys take the schema's defaults.
clusteringOptionsValidate(q) ==
  [error |-> \/ Len(q.status) # 0
             \/ (Len(q.algorithm) # 0 /\ q.algorithm[1] \notin SupportedAlgorithms),
   value |-> [algorithm |-> OrDefault(q.algorithm, "dbscan"),
              parameters |-> NoParameters,
              minClusterSize |-> 2,
              forceRecluster |-> OrDefault(q.forceRecluster, FALSE)]]

\* hotspotFilterSchema.validate(req.query), on the same query object.
hotspotFilterValidate(q) ==
  [error |-> \/ Len(q.algorithm) # 0
             \/ Len(q.forceRecluster) # 0
             \/ (Len(q.status) # 0 /\ q.status[1] \notin HotspotStatuses \cup {"all"}),
   value |-> [status |-> OrDefault(q.status, "all")]]

\* The Joi hotspotSchema on a body <<[lng, lat], base_severity, waste_type>>.
hotspotBodyValid(body) ==
  /\ body[2] >= 0 /\ body[2] <= 10
  /\ body[3] \in WasteTypes

\* The documents of S in the order of .sort({base_severity: -1, createdAt: -1})
\* (a later _id is a later createdAt).
RECURSIVE SortedHotspots(_)
SortedHotspots(S) ==
  IF S = {} THEN <<>>
  ELSE LET first == CHOOSE h \in S :
                      \A g \in S : \/ g.base_severity < h.base_severity
                                   \/ (g.base_severity = h.base_severity
                                         /\ g.id <= h.id)
       IN <<first>> \o SortedHotspots(S \ {first})

\* fetchFilteredHotspots: the stored hotspots the status filter admits.
fetchFilteredHotspots(filterOptions, stored) ==
  SortedHotspots({h \in stored : filterOptions.status \in {"all", h.status}})

\* The documents of S by ascending _id.
RECURSIVE ById(_)
ById(S) ==
  IF S = {} THEN <<>>
  ELSE LET first == CHOOSE d \in S : \A e \in S : d.id <= e.id
       IN <<first>> \o ById(S \ {first})

NoClusterStatistics ==
  [total_hotspots |-> 0, average_severity |-> Rat(0, 1),
   max_severity |-> Rat(0, 1), min_severity |-> Rat(0, 1), priority_score |-> 0]

\* saveClustersToDatabase's new Cluster({...}) for the n-th cluster of a
\* clustering result, given the _id insertMany assigns it.
ClusterDocument(clusteringResult, n, hs, id) ==
  LET cluster == clusteringResult.clusters[n]
  IN [id |-> id,
      name |-> cluster.name,
      centroid |-> cluster.centroid,
      algorithm |-> clusteringResult.algorithm,
      member_hotspots |-> [m \in 1..Len(cluster.memberIndices) |->
                             hs[cluster.memberIndices[m]].id],
      radius |-> cluster.radius,
      status |-> "active",
      statistics |-> NoClusterStatistics]

\* The Cluster schema's validation: name is required, algorithm is one of
\* the enum (centroid and radius are always set).
clusterDocumentValid(doc) ==
  /\ Len(doc.name) # 0
  /\ doc.algorithm \in ClusterAlgorithmEnum

\* Cluster.calculatePriorityScore (models/Cluster.js): Math.round of the sum;
\* without reports Math.max() is -Infinity and no recency bonus applies.
clusterPriorityScore(members) ==
  LET share(h) ==
        LET wasteBonus == IF h.waste_type \in {"medical", "electronic", "industrial"}
                          THEN 20 ELSE 0
            waterBonus == IF h.environmental_metrics.water_pollution_risk = "critical"
                          THEN 15 ELSE 0
            airBonus   == IF h.environmental_metrics.air_quality_impact = "critical"
                          THEN 15 ELSE 0
            recent     == IF Len(h.typical_reports) = 0 THEN 0
                          ELSE IF LatestReportAge(h) <= 1 THEN 10
                          ELSE IF LatestReportAge(h) <= 7 THEN 5
                          ELSE 0
        IN RatAdd(RatScale(10, calculated_severity(h)),
                  Rat(wasteBonus + waterBonus + airBonus + recent, 1))
  IN MathRound(RatSum(Map(share, members)))

\* updateBoundaries: the radius becomes the largest haversine distance from
\* the stored centroid to a member hotspot (Cluster.js has its own copy of
\* calculateDistance).
updateBoundaries(doc, members) ==
  [doc EXCEPT !.radius =
     calculateClusterRadius([m \in 1..Len(members) |->
                               <<members[m].lng, members[m].lat>>],
                            doc.centroid)]

\* updateStatistics: the document with its statistics recomputed from the
\* member hotspots the collection holds now.
updateStatistics(doc, stored) ==
  LET members == ById({h \in stored :
                         \E m \in 1..Len(doc.member_hotspots) :
                           doc.member_hotspots[m] = h.id})
      severities == Map(calculated_severity, members)
  IN IF Len(members) = 0 THEN [doc EXCEPT !.statistics = NoClusterStatistics]
     ELSE [updateBoundaries(doc, members) EXCEPT !.statistics =
             [total_hotspots |-> Len(members),
              average_severity |-> RatDivInt(RatSum(severities), Len(severities)),
              max_severity |-> RatMax(severities),
              min_severity |-> RatMin(severities),
              priority_score |-> clusterPriorityScore(members)]]

\* updateHotspotClusterAssignments: every stored hotspot a cluster lists
\* gets that cluster's _id (a later cluster of the list wins).
RECURSIVE updateHotspotClusterAssignments(_, _)
updateHotspotClusterAssignments(clusters, stored) ==
  IF Len(clusters) = 0 THEN stored
  ELSE LET c == Head(clusters)
           written == {IF \E m \in 1..Len(c.member_hotspots) :
                            c.member_hotspots[m] = h.id
                       THEN [h EXCEPT !.cluster_id = <<c.id>>] ELSE h :
                       h \in stored}
       IN updateHotspotClusterAssignments(Tail(clusters), written)

---------------------------------------------------------------------------
(* routes/clustering.js: the request handlers.  A handler runs up to its
   next awaited database call in one step; handlers of different requests
   interleave at those calls. *)

NoResponse == [status |-> 0, cached |-> FALSE, clusters |-> <<>>]

IdleRequest ==
  [route |-> "none", pc |-> "idle", query |-> NoQuery,
   clusteringOptions |-> clusteringOptionsValidate(NoQuery).value,
   filterOptions |-> hotspotFilterValidate(NoQuery).value,
   hs |-> <<>>, clusteringResult |-> NoResult,
   clusters |-> <<>>, next |-> 1, target |-> 0, before |-> <<>>,
   response |-> NoResponse]

Requests == 1..MaxRequests

\* Request bodies of POST /api/hotspots, as <<[lng, lat], base_severity,
\* waste_type>>: severities from the lowest the Joi schema admits to one
\* above the highest.
HotspotBodies ==
  {<<<<0, 0>>, 8, "household">>,
   <<<<1, 1>>, 0, "household">>,
   <<<<9, 4>>, 8, "medical">>,
   <<<<0, 0>>, 11, "household">>}

\* Request bodies of PUT /api/hotspots/:id: a valid one and a rejected one.
PutBodies ==
  {<<<<1, 1>>, 4, "household">>,
   <<<<0, 0>>, 11, "household">>}

\* Query strings of GET /api/clustering/clusters.
QueryChoices ==
  {NoQuery,
   [NoQuery EXCEPT !.algorithm = <<"dbscan">>],
   [NoQuery EXCEPT !.forceRecluster = <<TRUE>>],
   [NoQuery EXCEPT !.status = <<"active">>]}

Respond(r, status, cached, clusters) ==
  [reqs[r] EXCEPT !.pc = "done",
                  !.response = [status |-> status, cached |-> cached,
                                clusters |-> clusters]]

Init ==
  /\ hotspots = <<>>
  /\ options = [algorithm |-> "dbscan", minClusterSize |-> DefaultMinClusterSize,
                parameters |-> NoParameters]
  /\ result = NoResult
  /\ phase = "serving"
  /\ earlier = NoEarlier
  /\ dbHotspots = {}
  /\ dbClusters = {}
  /\ nextHotspotId = 1
  /\ nextClusterId = 1
  /\ reqs = [r \in Requests |-> IdleRequest]
  /\ OtherInit

\* POST /api/hotspots: validate the body, save the new document (the
\* pre-save hook sets its environmental metrics), answer 201.
PostHotspot(r) ==
  /\ reqs[r].pc = "idle"
  /\ \E body \in HotspotBodies :
       IF ~hotspotBodyValid(body)
       THEN /\ reqs' = [reqs EXCEPT ![r] =
                          [Respond(r, 400, FALSE, <<>>) EXCEPT
                             !.route = "POST /api/hotspots"]]
            /\ UNCHANGED <<dbHotspots, nextHotspotId>>
       ELSE /\ nextHotspotId <= MaxHotspotId
            /\ dbHotspots' = dbHotspots \cup
                 {updateEnvironmentalMetrics(
                    NewHotspot(nextHotspotId, body[1], body[2], body[3], NoReports))}
            /\ nextHotspotId' = nextHotspotId + 1
            /\ reqs' = [reqs EXCEPT ![r] =
                          [Respond(r, 201, FALSE, <<>>) EXCEPT
                             !.route = "POST /api/hotspots"]]
  /\ UNCHANGED <<dbClusters, nextClusterId>>
  /\ UNCHANGED <<engineVars, otherVars>>

\* PUT /api/hotspots/:id, up to the answer of findByIdAndUpdate: validate
\* the body, overwrite the document's fields with it; 404 without document.
PutHotspotUpdate(r) ==
  /\ reqs[r].pc = "idle"
  /\ \E id \in 1..MaxHotspotId : \E body \in PutBodies :
       LET started == [reqs[r] EXCEPT !.route = "PUT /api/hotspots/:id",
                                      !.target = id]
           answered(status) ==
             [started EXCEPT !.pc = "done",
                             !.response = [NoResponse EXCEPT !.status = status]]
       IN IF ~hotspotBodyValid(body)
          THEN /\ reqs' = [reqs EXCEPT ![r] = answered(400)]
               /\ UNCHANGED dbHotspots
          ELSE IF ~\E h \in dbHotspots : h.id = id
          THEN /\ reqs' = [reqs EXCEPT ![r] = answered(404)]
               /\ UNCHANGED dbHotspots
          ELSE /\ dbHotspots' =
                    {IF h.id = id
                     THEN [h EXCEPT !.lng = body[1][1], !.lat = body[1][2],
                                    !.base_severity = body[2],
                                    !.waste_type = body[3]]
                     ELSE h : h \in dbHotspots}
               /\ reqs' = [reqs EXCEPT ![r] = [started EXCEPT !.pc = "metrics"]]
  /\ UNCHANGED <<dbClusters, nextHotspotId, nextClusterId>>
  /\ UNCHANGED <<engineVars, otherVars>>

\* PUT /api/hotspots/:id, hotspot.updateEnvironmentalMetrics(): the metrics
\* of the updated document are recomputed and saved, then the answer.
PutHotspotMetrics(r) ==
  /\ reqs[r].pc = "metrics"
  /\ dbHotspots' = {IF h.id = reqs[r].target THEN updateEnvironmentalMetrics(h)
                    ELSE h : h \in dbHotspots}
  /\ reqs' = [reqs EXCEPT ![r] = Respond(r, 200, FALSE, <<>>)]
  /\ UNCHANGED <<dbClusters, nextHotspotId, nextClusterId>>
  /\ UNCHANGED <<engineVars, otherVars>>

\* GET /api/clustering/clusters, up to the call of Cluster.find: both
\* schemas validate the same query object.
GetClustersValidate(r) ==
  /\ reqs[r].pc = "idle"
  /\ \E q \in QueryChoices :
       LET clustering == clusteringOptionsValidate(q)
           filter == hotspotFilterValidate(q)
           started == [reqs[r] EXCEPT !.route = "GET /api/clustering/clusters",
                                      !.query = q,
                                      !.clusteringOptions = clustering.value,
                                      !.filterOptions = filter.value]
       IN reqs' = [reqs EXCEPT ![r] =
            IF clustering.error \/ filter.error
            THEN [started EXCEPT !.pc = "done",
                                 !.response = [NoResponse EXCEPT !.status = 400]]
            ELSE IF ~clustering.value.forceRecluster
            THEN [started EXCEPT !.pc = "find"]
            ELSE [started EXCEPT !.pc = "fetch"]]
  /\ UNCHANGED storeVars
  /\ UNCHANGED <<engineVars, otherVars>>

\* Cluster.find whose result is not looked at: the handler always goes on to
\* fetch and cluster.
GetClustersFind_AlwaysRecompute(r) ==
  /\ reqs[r].pc = "find"
  /\ reqs' = [reqs EXCEPT ![r] = [reqs[r] EXCEPT !.pc = "fetch"]]
  /\ UNCHANGED storeVars
  /\ UNCHANGED <<engineVars, otherVars>>

\* Cluster.find returns: stored active clusters of the algorithm are the
\* answer (cached), otherwise the handler goes on to fetch the hotspots.
GetClustersFind(r) ==
  /\ reqs[r].pc = "find"
  /\ LET existingClusters ==
           ById({c \in dbClusters :
                   /\ c.algorithm = reqs[r].clusteringOptions.algorithm
                   /\ c.status = "active"})
     IN reqs' = [reqs EXCEPT ![r] =
          IF Len(existingClusters) > 0
          THEN Respond(r, 200, TRUE, existingClusters)
          ELSE [reqs[r] EXCEPT !.pc = "fetch"]]
  /\ UNCHANGED storeVars
  /\ UNCHANGED <<engineVars, otherVars>>

\* fetchFilteredHotspots returns: no hotspot is an empty success; otherwise
\* the engine runs and a throw of it is answered 500.
GetClustersFetch(r) ==
  /\ reqs[r].pc = "fetch"
  /\ LET fetched == fetchFilteredHotspots(reqs[r].filterOptions, dbHotspots)
     IN IF Len(fetched) = 0
        THEN reqs' = [reqs EXCEPT ![r] = Respond(r, 200, FALSE, <<>>)]
        ELSE \E lib \in LibraryOutcomes(fetched, reqs[r].clusteringOptions) :
               LET clusteringResult ==
                     runClustering(fetched, reqs[r].clusteringOptions, lib)
               IN reqs' = [reqs EXCEPT ![r] =
                    IF clusteringResult.threw
                    THEN [Respond(r, 500, FALSE, <<>>) EXCEPT !.hs = fetched]
                    ELSE [reqs[r] EXCEPT !.pc = "insert", !.hs = fetched,
                                         !.clusteringResult = clusteringResult]]
  /\ UNCHANGED storeVars
  /\ UNCHANGED <<engineVars, otherVars>>

\* saveClustersToDatabase, Cluster.insertMany: a document failing the
\* schema's validation rejects the whole call (answered 500); without any
\* cluster there is nothing more to write and the answer is the empty list.
GetClustersInsert(r) ==
  /\ reqs[r].pc = "insert"
  /\ LET clusteringResult == reqs[r].clusteringResult
         clustersToSave ==
           [n \in 1..Len(clusteringResult.clusters) |->
              ClusterDocument(clusteringResult, n, reqs[r].hs,
                              nextClusterId + n - 1)]
     IN IF \E n \in 1..Len(clustersToSave) : ~clusterDocumentValid(clustersToSave[n])
        THEN /\ reqs' = [reqs EXCEPT ![r] = Respond(r, 500, FALSE, <<>>)]
             /\ UNCHANGED <<dbClusters, nextClusterId>>
        ELSE /\ nextClusterId + Len(clustersToSave) - 1 <= MaxClusterId
             /\ dbClusters' = dbClusters \cup
                  {clustersToSave[n] : n \in 1..Len(clustersToSave)}
             /\ nextClusterId' = nextClusterId + Len(clustersToSave)
             /\ reqs' = [reqs EXCEPT ![r] =
                  IF Len(clustersToSave) = 0
                  THEN Respond(r, 200, FALSE, <<>>)
                  ELSE [reqs[r] EXCEPT !.pc = "statistics",
                                       !.clusters = clustersToSave,
                                       !.next = 1]]
  /\ UNCHANGED <<dbHotspots, nextHotspotId>>
  /\ UNCHANGED <<engineVars, otherVars>>

\* saveClustersToDatabase, one turn of the loop: cluster.updateStatistics()
\* on the next saved document, written back by its save().
GetClustersUpdateStatistics(r) ==
  /\ reqs[r].pc = "statistics"
  /\ LET n == reqs[r].next
         updated == updateStatistics(reqs[r].clusters[n], dbHotspots)
     IN /\ dbClusters' = {IF c.id = updated.id THEN updated ELSE c :
                          c \in dbClusters}
        /\ reqs' = [reqs EXCEPT ![r] =
             [reqs[r] EXCEPT !.clusters[n] = updated,
                             !.next = n + 1,
                             !.pc = IF n = Len(reqs[r].clusters)
                                    THEN "assign" ELSE "statistics"]]
  /\ UNCHANGED <<dbHotspots, nextHotspotId, nextClusterId>>
  /\ UNCHANGED <<engineVars, otherVars>>

\* updateHotspotClusterAssignments (Hotspot.bulkWrite), then the answer.
GetClustersAssign(r) ==
  /\ reqs[r].pc = "assign"
  /\ dbHotspots' = updateHotspotClusterAssignments(reqs[r].clusters, dbHotspots)
  /\ reqs' = [reqs EXCEPT ![r] = Respond(r, 200, FALSE, reqs[r].clusters)]
  /\ UNCHANGED <<dbClusters, nextHotspotId, nextClusterId>>
  /\ UNCHANGED <<engineVars, otherVars>>

\* The client has its answer; the slot serves the next request.
Release(r) ==
  /\ reqs[r].pc = "done"
  /\ reqs' = [reqs EXCEPT ![r] = IdleRequest]
  /\ UNCHANGED storeVars
  /\ UNCHANGED <<engineVars, otherVars>>

Next ==
  \E r \in Requests :
    \/ PostHotspot(r)
    \/ PutHotspotUpdate(r)
    \/ PutHotspotMetrics(r)
    \/ GetClustersValidate(r)
    \/ GetClustersFind(r)
    \/ GetClustersFetch(r)
    \/ GetClustersInsert(r)
    \/ GetClustersUpdateStatistics(r)
    \/ GetClustersAssign(r)
    \/ Release(r)

Spec == Init /\ [][Next]_vars

---------------------------------------------------------------------------
(* routes/clustering.js: the routes that delete, and the forced            *)
(* reclustering.                                                           *)

\* The clusters and the hotspots' cluster assignments as stored.
StoredClustering(clusters, stored) ==
  [clusters |-> clusters,
   assignments |-> {<<h.id, h.cluster_id>> : h \in stored}]

\* Request bodies of POST /api/clustering/clusters, by their algorithm.
PostClustersBodies == {"dbscan", "kmeans", "optics"}

\* POST /api/clustering/clusters, up to the answer of Cluster.deleteMany:
\* validate the body, force reclustering, delete every stored cluster of the
\* algorithm (the hotspots keep the cluster_id they have).
PostClustersDeleteMany(r) ==
  /\ reqs[r].pc = "idle"
  /\ \E algorithm \in PostClustersBodies :
       LET validated == clusteringOptionsValidate(
                          [NoQuery EXCEPT !.algorithm = <<algorithm>>])
           started == [reqs[r] EXCEPT
                         !.route = "POST /api/clustering/clusters",
                         !.clusteringOptions =
                            [validated.value EXCEPT !.forceRecluster = TRUE],
                         !.before = <<StoredClustering(dbClusters, dbHotspots)>>]
       IN IF validated.error
          THEN /\ reqs' = [reqs EXCEPT ![r] =
                  [started EXCEPT !.pc = "done",
                                  !.response = [NoResponse EXCEPT !.status = 400]]]
               /\ UNCHANGED dbClusters
          ELSE /\ dbClusters' = {c \in dbClusters : c.algorithm # algorithm}
               /\ reqs' = [reqs EXCEPT ![r] = [started EXCEPT !.pc = "fetchAll"]]
  /\ UNCHANGED <<dbHotspots, nextHotspotId, nextClusterId>>
  /\ UNCHANGED <<engineVars, otherVars>>

\* POST /api/clustering/clusters, Hotspot.find({status: {$ne: 'resolved'}})
\* returns: no hotspot is an empty success; otherwise the engine runs, a
\* throw of it is answered 500, and saveClustersToDatabase follows.
PostClustersFetch(r) ==
  /\ reqs[r].pc = "fetchAll"
  /\ LET fetched == ById({h \in dbHotspots : h.status # "resolved"})
     IN IF Len(fetched) = 0
        THEN reqs' = [reqs EXCEPT ![r] = Respond(r, 200, FALSE, <<>>)]
        ELSE \E lib \in LibraryOutcomes(fetched, reqs[r].clusteringOptions) :
               LET clusteringResult ==
                     runClustering(fetched, reqs[r].clusteringOptions, lib)
               IN reqs' = [reqs EXCEPT ![r] =
                    IF clusteringResult.threw
                    THEN [Respond(r, 500, FALSE, <<>>) EXCEPT !.hs = fetched]
                    ELSE [reqs[r] EXCEPT !.pc = "insert", !.hs = fetched,
                                         !.clusteringResult = clusteringResult]]
  /\ UNCHANGED storeVars
  /\ UNCHANGED <<engineVars, otherVars>>

\* DELETE /api/clustering/clusters/:id, Cluster.findById: 404 without it.
DeleteClusterFind(r) ==
  /\ reqs[r].pc = "idle"
  /\ \E id \in 1..MaxClusterId :
       LET started == [reqs[r] EXCEPT
                         !.route = "DELETE /api/clustering/clusters/:id",
                         !.target = id]
       IN reqs' = [reqs EXCEPT ![r] =
            IF \E c \in dbClusters : c.id = id
            THEN [started EXCEPT !.pc = "unset"]
            ELSE [started EXCEPT !.pc = "done",
                                 !.response = [NoResponse EXCEPT !.status = 404]]]
  /\ UNCHANGED storeVars
  /\ UNCHANGED <<engineVars, otherVars>>

\* DELETE /api/clustering/clusters/:id, Hotspot.updateMany: the hotspots
\* assigned to the cluster lose their cluster_id.
DeleteClusterUnset(r) ==
  /\ reqs[r].pc = "unset"
  /\ dbHotspots' = {IF h.cluster_id = <<reqs[r].target>>
                    THEN [h EXCEPT !.cluster_id = <<>>] ELSE h :
                    h \in dbHotspots}
  /\ reqs' = [reqs EXCEPT ![r] = [reqs[r] EXCEPT !.pc = "deleteCluster"]]
  /\ UNCHANGED <<dbClusters, nextHotspotId, nextClusterId>>
  /\ UNCHANGED <<engineVars, otherVars>>

\* DELETE /api/clustering/clusters/:id, Cluster.findByIdAndDelete, answer.
DeleteClusterDelete(r) ==
  /\ reqs[r].pc = "deleteCluster"
  /\ dbClusters' = {c \in dbClusters : c.id # reqs[r].target}
  /\ reqs' = [reqs EXCEPT ![r] = Respond(r, 200, FALSE, <<>>)]
  /\ UNCHANGED <<dbHotspots, nextHotspotId, nextClusterId>>
  /\ UNCHANGED <<engineVars, otherVars>>

\* DELETE /api/hotspots/:id, Hotspot.findByIdAndDelete: 404 without the
\* document; a deleted hotspot without cluster_id is answered at once.
DeleteHotspotDelete(r) ==
  /\ reqs[r].pc = "idle"
  /\ \E id \in 1..MaxHotspotId :
       LET started == [reqs[r] EXCEPT !.route = "DELETE /api/hotspots/:id",
                                      !.target = id]
           found == {h \in dbHotspots : h.id = id}
       IN IF found = {}
          THEN /\ reqs' = [reqs EXCEPT ![r] =
                  [started EXCEPT !.pc = "done",
                                  !.response = [NoResponse EXCEPT !.status = 404]]]
               /\ UNCHANGED dbHotspots
          ELSE /\ dbHotspots' = dbHotspots \ found
               /\ reqs' = [reqs EXCEPT ![r] =
                    IF \E h \in found : Len(h.cluster_id) # 0
                    THEN [started EXCEPT !.pc = "pull", !.hs = ById(found)]
                    ELSE [started EXCEPT !.pc = "done", !.hs = ById(found),
                            !.response = [NoResponse EXCEPT !.status = 200]]]
  /\ UNCHANGED <<dbClusters, nextHotspotId, nextClusterId>>
  /\ UNCHANGED <<engineVars, otherVars>>

\* $pull: {member_hotspots: {hotspot_id}} on one cluster document.
pullMember(cluster, hotspotId) ==
  [cluster EXCEPT !.member_hotspots = SelectSeq(@, LAMBDA m : m # hotspotId)]

\* DELETE /api/hotspots/:id, Cluster.findByIdAndUpdate(hotspot.cluster_id,
\* $pull): the deleted hotspot leaves the cluster it was assigned to.
DeleteHotspotPull(r) ==
  /\ reqs[r].pc = "pull"
  /\ LET hotspot == reqs[r].hs[1]
     IN dbClusters' = {IF <<c.id>> = hotspot.cluster_id
                       THEN pullMember(c, hotspot.id) ELSE c : c \in dbClusters}
  /\ reqs' = [reqs EXCEPT ![r] = Respond(r, 200, FALSE, <<>>)]
  /\ UNCHANGED <<dbHotspots, nextHotspotId, nextClusterId>>
  /\ UNCHANGED <<engineVars, otherVars>>

\* One client that awaits each answer before its next request.
SerialRequests == {r \in Requests : \A q \in Requests : r <= q}

\* The service under the routes that create or delete hotspots and clusters
\* and the forced reclustering (the cached GET is in Next), one request at a
\* time.
StoreNext ==
  \E r \in SerialRequests :
    \/ PostHotspot(r)
    \/ DeleteHotspotDelete(r)
    \/ DeleteHotspotPull(r)
    \/ PostClustersDeleteMany(r)
    \/ PostClustersFetch(r)
    \/ GetClustersInsert(r)
    \/ GetClustersUpdateStatistics(r)
    \/ GetClustersAssign(r)
    \/ DeleteClusterFind(r)
    \/ DeleteClusterUnset(r)
    \/ DeleteClusterDelete(r)
    \/ Release(r)

SpecStore == Init /\ [][StoreNext]_vars

---------------------------------------------------------------------------
(* The service with its scheduling: Node runs every handler it has started *)
(* to its answer, so each continuation of a started request is taken; no   *)
(* client is obliged to send a further request.                            *)

\* checkAndTriggerReclustering's test, recentHotspots > totalHotspots * 0.1:
\* the model has no clock, every stored hotspot was created within the last
\* 24 hours.
reclusteringDue(stored) ==
  10 * Cardinality(stored) > Cardinality({h \in stored : h.status # "resolved"})

\* checkAndTriggerReclustering(), awaited by the hotspot routes before they
\* answer: two counts and, when reclustering is due, a console.log; no
\* stored document changes and no clustering is started.
checkAndTriggerReclustering(clusters, stored) == clusters

\* The positions of a handler that has started and not yet answered.
PendingPositions == {"metrics", "find", "fetch", "insert", "statistics", "assign"}

\* Weak fairness of the two steps that run the engine and recompute the
\* statistics, written without ENABLED (each is enabled exactly at its own
\* position, and every pending position is left by the steps below): the
\* request is not left forever at a pending position.
Continued(r) == []<>(reqs[r].pc \notin PendingPositions)

SpecLive ==
  /\ Init /\ [][Next]_vars
  /\ \A r \in Requests :
       /\ WF_vars(PutHotspotMetrics(r))
       /\ WF_vars(GetClustersFind(r))
       /\ WF_vars(GetClustersInsert(r))
       /\ WF_vars(GetClustersAssign(r))
       /\ Continued(r)

---------------------------------------------------------------------------
(* The route optimizer (backend/route_optimizer.py of Agent 4, which is    *)
(* not among the sources): optimize_route as its description gives it.     *)
(* Nodes are records [id, lng, lat] on the grid of the hotspots; the start *)
(* is <<>> or <<[lng, lat]>>.                                              *)

\* Most nodes handed to optimize_route.
MaxNodes == 4

\* The Distance Utility between two positions, in meters.
legDistance(a, b) ==
  calculateDistance(Rat(a.lat, 1), Rat(a.lng, 1), Rat(b.lat, 1), Rat(b.lng, 1))

\* The nearest of the unvisited nodes to the current position; the first in
\* input order among equally near ones.
nearestIndex(current, unvisited) ==
  CHOOSE i \in 1..Len(unvisited) :
    \A j \in 1..Len(unvisited) :
      \/ legDistance(current, unvisited[i]) < legDistance(current, unvisited[j])
      \/ /\ legDistance(current, unvisited[i]) = legDistance(current, unvisited[j])
         /\ i <= j

\* The list without its i-th element.
Remove(seq, i) == SubSeq(seq, 1, i - 1) \o SubSeq(seq, i + 1, Len(seq))

\* Nearest-neighbor construction that leaves the chosen node unvisited.
RECURSIVE nearestNeighbor_NotMarked(_, _)
nearestNeighbor_NotMarked(current, unvisited) ==
  IF Len(unvisited) = 0 THEN <<>>
  ELSE LET i == nearestIndex(current, unvisited)
       IN <<unvisited[i]>>
            \o nearestNeighbor_NotMarked(unvisited[i], Tail(unvisited))

\* Nearest-neighbor construction: repeatedly the nearest unvisited node to
\* the current position, until all nodes are visited.
RECURSIVE nearestNeighbor(_, _)
nearestNeighbor(current, unvisited) ==
  IF Len(unvisited) = 0 THEN <<>>
  ELSE LET i == nearestIndex(current, unvisited)
       IN <<unvisited[i]>>
            \o nearestNeighbor(unvisited[i], Remove(unvisited, i))

\* The nearest-neighbor route: from the start if one is given, else from
\* the first node in input order.
constructRoute(nodes, start) ==
  IF Len(nodes) = 0 THEN <<>>
  ELSE IF Len(start) = 1 THEN nearestNeighbor(start[1], nodes)
  ELSE <<nodes[1]>> \o nearestNeighbor(nodes[1], Tail(nodes))

\* The sum of the legs between consecutive nodes.
RECURSIVE pathDistance(_)
pathDistance(seq) ==
  IF Len(seq) <= 1 THEN 0
  ELSE legDistance(seq[1], seq[2]) + pathDistance(Tail(seq))

\* total_distance_m: every traversed leg, the one from the start included.
routeDistance(seq, start) ==
  (IF Len(start) = 1 /\ Len(seq) > 0 THEN legDistance(start[1], seq[1]) ELSE 0)
    + pathDistance(seq)

\* The route with the nodes at positions a..b in reverse order.
reverseSegment(seq, a, b) ==
  [k \in 1..Len(seq) |-> IF k >= a /\ k <= b THEN seq[a + b - k] ELSE seq[k]]

\* What reversing the segment between the edges (i, i+1) and (j, j+1) adds
\* to the total distance.
reversalDelta(seq, i, j) ==
  legDistance(seq[i], seq[j]) + legDistance(seq[i + 1], seq[j + 1])
    - legDistance(seq[i], seq[i + 1]) - legDistance(seq[j], seq[j + 1])

\* The 2-opt scan applying every reversal that does not lengthen the first
\* of the two edges, whatever it does to the total.
RECURSIVE twoOptScan_FirstEdgeOnly(_, _, _)
twoOptScan_FirstEdgeOnly(seq, i, j) ==
  IF i > Len(seq) - 3 THEN seq
  ELSE IF j > Len(seq) - 1 THEN twoOptScan_FirstEdgeOnly(seq, i + 1, i + 3)
  ELSE twoOptScan_FirstEdgeOnly(
         IF legDistance(seq[i], seq[j]) <= legDistance(seq[i], seq[i + 1])
         THEN reverseSegment(seq, i + 1, j) ELSE seq,
         i, j + 1)

\* The single 2-opt pass from the pair of edges (i, i+1), (j, j+1) on: a
\* reversal is applied if and only if it strictly reduces the total
\* distance, and the scan continues with the next pair.
RECURSIVE twoOptScan(_, _, _)
twoOptScan(seq, i, j) ==
  IF i > Len(seq) - 3 THEN seq
  ELSE IF j > Len(seq) - 1 THEN twoOptScan(seq, i + 1, i + 3)
  ELSE twoOptScan(IF reversalDelta(seq, i, j) < 0
                  THEN reverseSegment(seq, i + 1, j) ELSE seq,
                  i, j + 1)

\* The improvement: only for 4 nodes or more, one pass.
twoOptPass(seq) == IF Len(seq) >= 4 THEN twoOptScan(seq, 1, 3) ELSE seq

\* optimize_route(nodes, start): the route with its order fields and its
\* total distance (baseline: the nearest-neighbor route it started from).
optimize_route(nodes, start) ==
  LET baseline == constructRoute(nodes, start)
      final == twoOptPass(baseline)
  IN [nodes |-> nodes, start |-> start, called |-> TRUE,
      baseline |-> baseline,
      route |-> [k \in 1..Len(final) |->
                   [id |-> final[k].id, lat |-> final[k].lat,
                    lng |-> final[k].lng, order |-> k - 1]],
      total_distance_m |-> routeDistance(final, start)]

\* The places of the cluster centroids a caller asks a route for: four on a
\* line and one off it.
Places == {<<5, 0>>, <<4, 0>>, <<7, 0>>, <<0, 0>>, <<5, 3>>}

\* The start points a caller may give.
StartChoices == {<<0, 0>>, <<6, 1>>}

\* The caller adds a cluster node to its request.
AddNode ==
  /\ ~trip.called
  /\ Len(trip.nodes) < MaxNodes
  /\ \E place \in Places :
       trip' = [trip EXCEPT !.nodes =
                  Append(@, [id |-> Len(trip.nodes) + 1,
                             lng |-> place[1], lat |-> place[2]])]
  /\ UNCHANGED <<engineVars, dbVars, hotspotDoc, form>>

\* The caller gives a start point.
ChooseStart ==
  /\ ~trip.called
  /\ Len(trip.start) = 0
  /\ \E place \in StartChoices :
       trip' = [trip EXCEPT !.start = <<[lng |-> place[1], lat |-> place[2]]>>]
  /\ UNCHANGED <<engineVars, dbVars, hotspotDoc, form>>

\* POST /route: optimize_route on the request.
CallOptimizeRoute ==
  /\ ~trip.called
  /\ trip' = optimize_route(trip.nodes, trip.start)
  /\ UNCHANGED <<engineVars, dbVars, hotspotDoc, form>>

RouteNext == AddNode \/ ChooseStart \/ CallOptimizeRoute

SpecRoute == EngineInit /\ [][RouteNext]_vars

---------------------------------------------------------------------------
(* models/Hotspot.js: saving one hotspot document.  hotspotDoc is the      *)
(* document a handler holds: its fields, the paths modified since the last *)
(* write, whether a save() of it is in progress, and counts of the save()  *)
(* calls, hook runs and rejected calls since the handler's last call.      *)

\* Most save() calls followed for one call of a handler.
MaxSaveCalls == 4

\* Most reports pushed to the document.
MaxReports == 2

\* The paths the pre-save hook asks isModified about.
HookedPaths == {"base_severity", "typical_reports"}

\* document.save() without its guard against a save in progress: every call
\* runs the pre-save hooks.
save_Reentrant(d) ==
  [d EXCEPT !.saves = @ + 1, !.saving = TRUE, !.pc = "hook"]

\* document.save(): a call on a document whose save is in progress is
\* rejected (ParallelSaveError) before any hook runs; otherwise the save is
\* marked in progress and the pre-save hooks run next.
save(d) ==
  IF d.saving
  THEN [d EXCEPT !.saves = @ + 1, !.rejected = @ + 1]
  ELSE [d EXCEPT !.saves = @ + 1, !.saving = TRUE, !.pc = "hook"]

\* The method updateEnvironmentalMetrics on the document: the metrics are
\* recomputed and the method ends with this.save().
updateEnvironmentalMetricsThenSave(d) ==
  save([d EXCEPT !.hotspot = <<updateEnvironmentalMetrics(@[1])>>,
                 !.modified = @ \cup {"environmental_metrics"}])

\* A handler's own call starts the counts anew.
HandlerCall(d) == [d EXCEPT !.saves = 0, !.hooks = 0, !.rejected = 0]

\* POST /api/hotspots: new Hotspot(value); every path given is modified.
ConstructHotspot ==
  /\ hotspotDoc.pc = "idle" /\ Len(hotspotDoc.hotspot) = 0
  /\ \E sev \in {2, 9} :
       hotspotDoc' = [HandlerCall(hotspotDoc) EXCEPT
                        !.hotspot = <<NewHotspot(1, <<0, 0>>, sev, "household", <<>>)>>,
                        !.modified = {"coordinates", "base_severity", "waste_type"}]
  /\ UNCHANGED <<engineVars, dbVars, trip, form>>

\* POST /api/hotspots/:id/reports: hotspot.typical_reports.push(value).
PushReport ==
  /\ hotspotDoc.pc = "idle" /\ Len(hotspotDoc.hotspot) = 1
  /\ Len(hotspotDoc.hotspot[1].typical_reports) < MaxReports
  /\ \E score \in {1, 10} :
       hotspotDoc' = [HandlerCall(hotspotDoc) EXCEPT
                        !.hotspot = <<[@[1] EXCEPT !.typical_reports =
                                         Append(@, [severity_score |-> score])]>>,
                        !.modified = @ \cup {"typical_reports"}]
  /\ UNCHANGED <<engineVars, dbVars, trip, form>>

\* await hotspot.save() of a handler.
HandlerSave ==
  /\ hotspotDoc.pc = "idle" /\ Len(hotspotDoc.hotspot) = 1
  /\ hotspotDoc' = save(HandlerCall(hotspotDoc))
  /\ UNCHANGED <<engineVars, dbVars, trip, form>>

\* await hotspot.updateEnvironmentalMetrics() of a handler.
HandlerUpdateMetrics ==
  /\ hotspotDoc.pc = "idle" /\ Len(hotspotDoc.hotspot) = 1
  /\ hotspotDoc' = updateEnvironmentalMetricsThenSave(HandlerCall(hotspotDoc))
  /\ UNCHANGED <<engineVars, dbVars, trip, form>>

\* The pre('save') hook: with base_severity or typical_reports modified it
\* calls updateEnvironmentalMetrics, whose promise it drops, then next().
PreSaveHook ==
  /\ hotspotDoc.pc = "hook"
  /\ hotspotDoc.saves < MaxSaveCalls
  /\ LET entered == [hotspotDoc EXCEPT !.hooks = @ + 1, !.pc = "write"]
     IN hotspotDoc' = IF entered.modified \cap HookedPaths # {}
                      THEN updateEnvironmentalMetricsThenSave(entered)
                      ELSE entered
  /\ UNCHANGED <<engineVars, dbVars, trip, form>>

\* The save writes the document: the stored copy is the document, no path
\* is modified any more, no save is in progress.
WriteDocument ==
  /\ hotspotDoc.pc = "write"
  /\ hotspotDoc' = [hotspotDoc EXCEPT !.stored = hotspotDoc.hotspot,
                                      !.modified = {}, !.saving = FALSE,
                                      !.pc = "idle"]
  /\ UNCHANGED <<engineVars, dbVars, trip, form>>

SaveNext ==
  \/ ConstructHotspot
  \/ PushReport
  \/ HandlerSave
  \/ HandlerUpdateMetrics
  \/ PreSaveHook
  \/ WriteDocument

SpecSave == Init /\ [][SaveNext]_vars

---------------------------------------------------------------------------
(* The submission form (src/backend/start.bat, HotspotSubmissionForm).     *)
(* Latitude and longitude are in units of 0.0001 degree.                   *)

\* 0.0001-degree units in one degree.
UnitsPerDegree == 10000

\* What parseFloat(e.target.value) || 0 gives for the latitudes typed: the
\* ends of the range, one unit beyond them, the equator (also what an emptied
\* field gives) and an inner value.
TypedLatitudes ==
  {-90 * UnitsPerDegree - 1, -90 * UnitsPerDegree, 0, 123456,
   90 * UnitsPerDegree, 90 * UnitsPerDegree + 1}

\* The same for the longitudes typed.
TypedLongitudes ==
  {-180 * UnitsPerDegree - 1, -180 * UnitsPerDegree, 0,
   180 * UnitsPerDegree, 180 * UnitsPerDegree + 1}

\* The values of the range input (min 1, max 10).
SliderSeverities == {1, 5, 10}

\* Texts typed into description and reporterName.
TypedTexts == {"", " ", "text"}

\* Texts typed into reporterEmail.
TypedEmails == {"", "name", "name@example.org"}

\* text.trim() is not empty.
TrimmedNonEmpty(text) == text \notin {"", " "}

\* /^[^\s@]+@[^\s@]+\.[^\s@]+$/.test(text), on the texts typed.
EmailPattern(text) == text = "name@example.org"

\* !value of JavaScript for a number: true of 0 (and of NaN, which
\* parseFloat(...) || 0 never leaves in the form).
Falsy(value) == value = 0

\* validateForm: the keys of newErrors.
validateForm(f) ==
  {field \in {"lat"} :
     Falsy(f.lat) \/ f.lat < -90 * UnitsPerDegree \/ f.lat > 90 * UnitsPerDegree}
  \cup {field \in {"lng"} :
     Falsy(f.lng) \/ f.lng < -180 * UnitsPerDegree \/ f.lng > 180 * UnitsPerDegree}
  \cup {field \in {"severity"} :
     Falsy(f.severity) \/ f.severity < 1 \/ f.severity > 10}
  \cup {field \in {"description"} : ~TrimmedNonEmpty(f.description)}
  \cup {field \in {"reporterName"} : ~TrimmedNonEmpty(f.reporterName)}
  \cup {field \in {"reporterEmail"} :
     ~TrimmedNonEmpty(f.reporterEmail) \/ ~EmailPattern(f.reporterEmail)}

\* handleInputChange(field, value): the field is set and its error cleared.
handleInputChange(f, field, value) ==
  [[f EXCEPT ![field] = value] EXCEPT !.errors = @ \ {field},
                                      !.validated = FALSE, !.submitted = FALSE]

ChangeLatitude ==
  /\ \E value \in TypedLatitudes : form' = handleInputChange(form, "lat", value)
  /\ UNCHANGED <<engineVars, dbVars, trip, hotspotDoc>>

ChangeLongitude ==
  /\ \E value \in TypedLongitudes : form' = handleInputChange(form, "lng", value)
  /\ UNCHANGED <<engineVars, dbVars, trip, hotspotDoc>>

ChangeSeverity ==
  /\ \E value \in SliderSeverities :
       form' = handleInputChange(form, "severity", value)
  /\ UNCHANGED <<engineVars, dbVars, trip, hotspotDoc>>

ChangeText ==
  /\ \/ \E value \in TypedTexts :
          form' = handleInputChange(form, "description", value)
     \/ \E value \in TypedTexts :
          form' = handleInputChange(form, "reporterName", value)
     \/ \E value \in TypedEmails :
          form' = handleInputChange(form, "reporterEmail", value)
  /\ UNCHANGED <<engineVars, dbVars, trip, hotspotDoc>>

\* handleSubmit: validateForm sets the errors; onSubmit is called only
\* when there is none.
handleSubmit ==
  /\ ~form.validated
  /\ form' = [form EXCEPT !.errors = validateForm(form),
                          !.validated = TRUE,
                          !.submitted = (validateForm(form) = {})]
  /\ UNCHANGED <<engineVars, dbVars, trip, hotspotDoc>>

FormNext ==
  \/ ChangeLatitude
  \/ ChangeLongitude
  \/ ChangeSeverity
  \/ ChangeText
  \/ handleSubmit

SpecForm == Init /\ [][FormNext]_vars

---------------------------------------------------------------------------
(* Properties of runClustering, checked under SpecEngine *)

RatDiv(a, b) == [num |-> a.num * b.den, den |-> a.den * b.num]

\* A call on a supported algorithm has returned normally.
Returned ==
  phase = "done" /\ ~result.threw /\ options.algorithm \in SupportedAlgorithms

ClusterIndexSet == 1..Len(result.clusters)

\* How often hotspot index i occurs among the members of cluster c.
Occurrences(c, i) ==
  Cardinality({m \in 1..Len(c.memberIndices) : c.memberIndices[m] = i})

\* The severities of a cluster's members.
MemberSeverities(c) == Map(SeverityOf, MemberHotspots(c, hotspots))

\* C1 (Coverage): whenever runClustering returns, every input hotspot is a
\* member of exactly one returned cluster, exactly once.
C1_Coverage ==
  Returned =>
    \A i \in 1..Len(hotspots) :
      /\ Cardinality({n \in ClusterIndexSet :
                        Occurrences(result.clusters[n], i) > 0}) = 1
      /\ \A n \in ClusterIndexSet : Occurrences(result.clusters[n], i) <= 1

\* C2: every point the density pass labels as noise is returned as a
\* cluster of its own, of size 1.
C2_NoiseKeptAsSingletons ==
  (Returned /\ result.invoked = "dbscan") =>
    \A i \in result.noise :
      \E n \in ClusterIndexSet : result.clusters[n].memberIndices = <<i>>

\* C3: the aggregate severity of every cluster is
\* round(sum(s_i * s_i) / sum(s_i)) over its members' severities s_i.
C3_SeverityWeightedAggregate ==
  Returned =>
    \A n \in ClusterIndexSet :
      LET c   == result.clusters[n]
          sev == MemberSeverities(c)
          sq  == [m \in 1..Len(sev) |-> RatMul(sev[m], sev[m])]
      IN (c.statistics.defined /\ RatSum(sev).num > 0) =>
           RatEq(c.statistics.averageSeverity,
                 Rat(MathRound(RatDiv(RatSum(sq), RatSum(sev))), 1))

\* C4 (Severity clamp): every returned cluster's aggregate severity lies in
\* [1, 10].
C4_SeverityClamp ==
  Returned =>
    \A n \in ClusterIndexSet :
      LET c == result.clusters[n]
      IN c.statistics.defined =>
           /\ RatLe(Rat(1, 1), c.statistics.averageSeverity)
           /\ RatLe(c.statistics.averageSeverity, Rat(10, 1))

\* The sum over a cluster's members of weight(member) * coordinate k.
WeightedCoordSum(c, k, weight(_)) ==
  RatSum([m \in 1..Len(c.memberIndices) |->
            RatScale(prepareCoordinates(hotspots)[c.memberIndices[m]][k],
                     weight(hotspots[c.memberIndices[m]]))])

WeightSum(c, weight(_)) ==
  RatSum([m \in 1..Len(c.memberIndices) |-> weight(hotspots[c.memberIndices[m]])])

\* centroid = sum(weight_i * coordinate_i) / sum(weight_i), in both coordinates.
IsWeightedMean(c, weight(_)) ==
  /\ RatEq(RatMul(c.centroid.lng, WeightSum(c, weight)),
           WeightedCoordSum(c, 1, weight))
  /\ RatEq(RatMul(c.centroid.lat, WeightSum(c, weight)),
           WeightedCoordSum(c, 2, weight))

UnitWeight(h) == Rat(1, 1)

C6_SingletonsBelowMinimum ==
  (Returned /\ Len(hotspots) >= 1 /\ Len(hotspots) < options.minClusterSize) =>
    /\ Len(result.clusters) = Len(hotspots)
    /\ \A n \in ClusterIndexSet : Len(result.clusters[n].memberIndices) = 1
    /\ result.invoked = "none"

\* C7: on an empty hotspot list runClustering returns an empty cluster list
\* with totalClusters = 0, for every supported algorithm and minClusterSize
\* >= 1, running no algorithm and raising no error.
C7_EmptyInput ==
  (phase = "done" /\ Len(hotspots) = 0
     /\ options.algorithm \in SupportedAlgorithms) =>
    /\ ~result.threw
    /\ result.clusters = <<>>
    /\ result.totalClusters = 0
    /\ result.invoked = "none"

\* C7 witness: runClustering has returned from a call on an empty list.
C7_Witness ==
  /\ phase = "done" /\ Len(hotspots) = 0
  /\ options.algorithm \in SupportedAlgorithms
  /\ result.algorithm = "none"

\* C9: when the density pass over at least min_points points (minClusterSize
\* and the pass's own minPoints alike) forms no
\* cluster of two or more members, runClustering returns the k-means
\* method's clusters.
C9_DensityFallback ==
  (Returned /\ options.algorithm = "dbscan"
     /\ Len(hotspots) >= options.minClusterSize
     /\ Len(hotspots) >= OrDefault(options.parameters.minPoints, DefaultMinPoints)
     /\ result.noise = 1..Len(hotspots)) =>
    result.algorithm = "kmeans"

\* The priority the claim derives from an aggregate severity.
SeverityBucket(sev) ==
  IF RatLt(sev, Rat(5, 1)) THEN "low"
  ELSE IF RatLt(sev, Rat(7, 1)) THEN "medium"
  ELSE IF RatLt(sev, Rat(9, 1)) THEN "high"
  ELSE "critical"

\* C10 as stated: a cluster's priority is bucketed from its aggregate
\* severity alone: low below 5, medium 5-6, high 7-8, critical from 9.
C10_PriorityFromSeverity ==
  Returned =>
    \A n \in ClusterIndexSet :
      LET c == result.clusters[n]
      IN c.statistics.defined =>
           c.priorityLevel = <<SeverityBucket(c.statistics.averageSeverity)>>

\* C10 as amended: the priority of every cluster an algorithm run returns
\* is bucketed from its priority score alone (critical from 80, high from
\* 60, medium from 40, else low), the score being the rounded sum of its
\* members' shares capped at 100; the under-minimum path sets no priority.
C10_PriorityFromScore ==
  Returned =>
    \A n \in ClusterIndexSet :
      LET c     == result.clusters[n]
          total == MathRound(RatSum(Map(HotspotPriorityShare,
                                        MemberHotspots(c, hotspots))))
          score == IF total > 100 THEN 100 ELSE total
      IN IF result.invoked = "none" THEN c.priorityLevel = <<>>
         ELSE c.priorityLevel =
                <<CASE score >= 80 -> "critical"
                    [] score >= 60 /\ score < 80 -> "high"
                    [] score >= 40 /\ score < 60 -> "medium"
                    [] OTHER -> "low">>

\* C10 witness: two returned clusters of different priority, one of them at
\* a bucket's lower edge.
C10_Witness ==
  /\ Returned
  /\ \E n \in ClusterIndexSet :
       /\ result.clusters[n].statistics.priorityScore = 40
       /\ result.clusters[n].priorityLevel = <<"medium">>
  /\ \E n \in ClusterIndexSet : result.clusters[n].priorityLevel = <<"low">>

---------------------------------------------------------------------------
(* Properties of the request handlers, checked under Spec *)

\* Request r is a finished GET /api/clustering/clusters that fetched at
\* least one hotspot, so that it recomputed the clusters.
Recomputed(r) ==
  /\ reqs[r].route = "GET /api/clustering/clusters"
  /\ reqs[r].pc = "done"
  /\ Len(reqs[r].hs) >= 1

WellFormedCluster(c) ==
  /\ Len(c.name) # 0
  /\ c.algorithm \in ClusterAlgorithmEnum
  /\ Len(c.member_hotspots) >= 1

\* C8: every GET /api/clustering/clusters that recomputes the clusters of a
\* non-empty set of stored hotspots answers 200 and returns at least one
\* cluster, each of them well formed and stored; for exactly one hotspot the
\* answer is one singleton cluster holding it.
C8_RecomputeNeverFails ==
  \A r \in Requests :
    Recomputed(r) =>
      LET response == reqs[r].response
      IN /\ response.status = 200
         /\ Len(response.clusters) >= 1
         /\ \A n \in 1..Len(response.clusters) :
              /\ WellFormedCluster(response.clusters[n])
              /\ \E d \in dbClusters : d.id = response.clusters[n].id
         /\ Len(reqs[r].hs) = 1 =>
              /\ Len(response.clusters) = 1
              /\ response.clusters[1].member_hotspots = <<reqs[r].hs[1].id>>

---------------------------------------------------------------------------
(* Ordering of the returned clusters, checked under SpecEngine *)

\* Cluster a was produced before cluster b by the algorithm's process*Results:
\* k-means walks the centroids by index, the other two walk the labels in
\* the order of their first point.
ProducedBefore(a, b) ==
  IF result.algorithm = "kmeans" THEN a.id < b.id
  ELSE a.memberIndices[1] < b.memberIndices[1]

\* C11 (as claimed): the returned clusters are ordered by descending member
\* count, among equal counts by descending aggregate severity, among
\* clusters equal in both by ascending centroid latitude.
C11_SizeSeverityLatitudeOrder ==
  Returned =>
    \A n \in ClusterIndexSet : \A m \in ClusterIndexSet :
      n < m =>
        LET a == result.clusters[n]
            b == result.clusters[m]
        IN /\ a.size >= b.size
           /\ (a.size = b.size /\ a.statistics.defined /\ b.statistics.defined) =>
                /\ RatLe(b.statistics.averageSeverity, a.statistics.averageSeverity)
                /\ RatEq(a.statistics.averageSeverity, b.statistics.averageSeverity) =>
                     RatLe(a.centroid.lat, b.centroid.lat)

\* C11 (amended): the returned clusters are ordered by descending member
\* count, and clusters of equal count keep the order in which the algorithm
\* produced them; neither severity nor latitude breaks a tie.
C11_SizeOrderOnly ==
  Returned =>
    \A n \in ClusterIndexSet : \A m \in ClusterIndexSet :
      n < m =>
        LET a == result.clusters[n]
            b == result.clusters[m]
        IN /\ a.size >= b.size
           /\ a.size = b.size => ProducedBefore(a, b)

\* A result holding two clusters of equal count of which the first has the
\* lower aggregate severity.
C11_Witness ==
  /\ Returned
  /\ \E n \in ClusterIndexSet : \E m \in ClusterIndexSet :
       /\ n < m
       /\ result.clusters[n].size = result.clusters[m].size
       /\ result.clusters[n].statistics.defined
       /\ RatLt(result.clusters[n].statistics.averageSeverity,
                result.clusters[m].statistics.averageSeverity)

---------------------------------------------------------------------------
(* Cluster radius, checked under SpecEngine *)

\* The haversine distances from a cluster's centroid to its members.
MemberDistances(c) ==
  [m \in 1..Len(c.memberIndices) |->
     calculateDistance(c.centroid.lat, c.centroid.lng,
                       Rat(hotspots[c.memberIndices[m]].lat, 1),
                       Rat(hotspots[c.memberIndices[m]].lng, 1))]

\* The members of a cluster all lie at one coordinate.
OneCoordinate(c) ==
  \A m \in 1..Len(c.memberIndices) :
    /\ hotspots[c.memberIndices[m]].lng = hotspots[c.memberIndices[1]].lng
    /\ hotspots[c.memberIndices[m]].lat = hotspots[c.memberIndices[1]].lat

---------------------------------------------------------------------------
(* The k of the k-means method, checked under SpecEngine *)

\* clamp(round(sqrt(n / 2)), 2, 5); round(sqrt(n / 2)) is the integer part
\* of (sqrt(2 * n) + 1) / 2.
ClampedRootK(n) ==
  LET rounded == (ISqrt(2 * n) + 1) \div 2
  IN IF rounded < 2 THEN 2 ELSE IF rounded > 5 THEN 5 ELSE rounded

\* C13: a k-means run that was given no k uses k = clamp(round(sqrt(n / 2)),
\* 2, 5) for its n points, so never a k below 2 or above 5.
C13_DefaultK ==
  (result.invoked = "kmeans" /\ Len(options.parameters.k) = 0) =>
    /\ KMeansK(options.parameters, Len(hotspots)) = ClampedRootK(Len(hotspots))
    /\ KMeansK(options.parameters, Len(hotspots)) >= 2
    /\ KMeansK(options.parameters, Len(hotspots)) <= 5

---------------------------------------------------------------------------
(* Determinism, checked under SpecRepeat *)

\* What the claim compares of a result: per position the members and the
\* centroid of the cluster there.
Clustering(r) ==
  [n \in 1..Len(r.clusters) |->
     [memberIndices |-> r.clusters[n].memberIndices,
      centroid |-> r.clusters[n].centroid]]

\* C14 (Determinism): two calls of runClustering with the same hotspots and
\* the same options end alike and return the same clusters in the same
\* order, with the same members and centroids, however far apart in time.
C14_Determinism ==
  phase = "repeated" =>
    /\ result.threw = earlier.result.threw
    /\ Clustering(result) = Clustering(earlier.result)

\* Two calls days apart whose results agree although time shows in them: a
\* cluster's priority score differs between the two.
C14_Witness ==
  /\ phase = "repeated"
  /\ earlier.elapsed > 0
  /\ Len(result.clusters) > 0
  /\ Len(result.clusters) = Len(earlier.result.clusters)
  /\ \E n \in 1..Len(result.clusters) :
       /\ result.clusters[n].statistics.defined
       /\ result.clusters[n].statistics.priorityScore #
            earlier.result.clusters[n].statistics.priorityScore

---------------------------------------------------------------------------
(* Malformed input, checked under SpecMalformed *)

\* The positions of the hotspots without coordinates.
MalformedIndices == {i \in 1..Len(hotspots) : ~hotspots[i].hasCoordinates}

\* C15: a call of runClustering whose input holds malformed points does not
\* fail, clusters only the remaining points and reports the number of points
\* it skipped alongside the cluster list.
C15_MalformedSkipped ==
  (phase = "done" /\ MalformedIndices # {}
     /\ options.algorithm \in SupportedAlgorithms) =>
    /\ ~result.threw
    /\ \A n \in ClusterIndexSet :
         \A m \in 1..Len(result.clusters[n].memberIndices) :
           result.clusters[n].memberIndices[m] \notin MalformedIndices
    /\ "skipped" \in DOMAIN result
    /\ result.skipped = Cardinality(MalformedIndices)

---------------------------------------------------------------------------
(* Admission of hotspots, checked under Spec *)

\* C16: no hotspot whose severity lies outside [1,10] (or whose latitude or
\* longitude is out of range) is admitted through POST or PUT /api/hotspots:
\* none is stored and none is among the hotspots fetched for runClustering.
C16_OutOfRangeNeverAdmitted ==
  /\ \A h \in dbHotspots : h.base_severity >= 1 /\ h.base_severity <= 10
  /\ \A r \in Requests :
       \A i \in 1..Len(reqs[r].hs) :
         reqs[r].hs[i].base_severity >= 1 /\ reqs[r].hs[i].base_severity <= 10

---------------------------------------------------------------------------
(* Configuration errors, checked under SpecMisconfigured *)

Misconfigured(opts) ==
  \/ opts.algorithm \notin SupportedAlgorithms
  \/ OrDefault(opts.parameters.eps, DefaultEps) < 0
  \/ OrDefault(opts.parameters.minPoints, DefaultMinPoints) < 1

\* C17: a call configured with a negative eps, with a minPoints below 1 or
\* with an unsupported algorithm name raises an error before any clustering
\* computation starts: it returns no result and no library is invoked.
C17_ConfigurationErrorsFailFast ==
  (phase = "done" /\ Misconfigured(options))
    => (result.threw /\ result.invoked = "none")

---------------------------------------------------------------------------
(* The metric of the density pass, checked under SpecEngine *)

DensityCall == Returned /\ result.algorithm = "dbscan"

EpsOf(opts) == OrDefault(opts.parameters.eps, DefaultEps)

MinPointsOf(opts) == OrDefault(opts.parameters.minPoints, DefaultMinPoints)

\* Hotspots i and j lie within eps of one another, euclidean on degrees.
WithinEpsDegrees(i, j) ==
  Dist2(<<hotspots[i].lng, hotspots[i].lat>>,
        <<hotspots[j].lng, hotspots[j].lat>>) <= EpsOf(options) * EpsOf(options)

\* The haversine distance of hotspots i and j, in meters.
HaversineMeters(i, j) ==
  calculateDistance(Rat(hotspots[i].lat, 1), Rat(hotspots[i].lng, 1),
                    Rat(hotspots[j].lat, 1), Rat(hotspots[j].lng, 1))

\* Hotspots i and j lie within eps of one another, haversine in meters: eps
\* counts units of 0.005, so 5 * eps is its value in thousandths.
WithinEpsMeters(i, j) == HaversineMeters(i, j) * 1000 <= 5 * EpsOf(options)

SameCluster(i, j) ==
  \E n \in ClusterIndexSet :
    /\ Occurrences(result.clusters[n], i) > 0
    /\ Occurrences(result.clusters[n], j) > 0

---------------------------------------------------------------------------
(* The answer of a recomputing GET /api/clustering/clusters, under Spec *)

\* The request of slot r was answered 200 with freshly computed clusters.
RecomputedAnswer(r) ==
  /\ reqs[r].route = "GET /api/clustering/clusters"
  /\ reqs[r].pc = "done"
  /\ reqs[r].response.status = 200
  /\ ~reqs[r].response.cached

\* C19: each cluster of data.clusters in the answer of a successful
\* recomputing GET /api/clustering/clusters carries statistics.totalHotspots,
\* statistics.averageSeverity, statistics.priorityScore and priorityLevel,
\* and statistics.totalHotspots is the number of the cluster's members.
C19_CamelCaseStatistics ==
  \A r \in Requests :
    RecomputedAnswer(r) =>
      \A i \in 1..Len(reqs[r].response.clusters) :
        LET c == reqs[r].response.clusters[i]
        IN /\ {"totalHotspots", "averageSeverity", "priorityScore"}
                \subseteq DOMAIN c.statistics
           /\ "priorityLevel" \in DOMAIN c
           /\ c.statistics.totalHotspots = Len(c.member_hotspots)


\* The query holds nothing but valid clustering options.
OnlyValidClusteringOptions(q) ==
  /\ Len(q.status) = 0
  /\ Len(q.algorithm) # 0 \/ Len(q.forceRecluster) # 0
  /\ Len(q.algorithm) # 0 => q.algorithm[1] \in SupportedAlgorithms

\* C20: a GET /api/clustering/clusters request whose query holds only valid
\* clustering options passes both query validations: it is never answered
\* with a 400 validation error.
C20_ValidOptionsAccepted ==
  \A r \in Requests :
    (/\ reqs[r].route = "GET /api/clustering/clusters"
     /\ reqs[r].pc = "done"
     /\ OnlyValidClusteringOptions(reqs[r].query))
      => reqs[r].response.status # 400

---------------------------------------------------------------------------
(* Automatic reclustering, checked under SpecLive *)

\* A stored active cluster whose statistics or boundaries are not those of
\* its members as they are stored now.
Stale ==
  \E c \in dbClusters :
    c.status = "active" /\ updateStatistics(c, dbHotspots) # c

\* C21: once a hotspot was created or updated while reclustering is due, a
\* reclustering is triggered: stored clusters that do not reflect the stored
\* hotspots are eventually recomputed.
C21_EventuallyRecomputed ==
  (reclusteringDue(dbHotspots) /\ Stale
     /\ checkAndTriggerReclustering(dbClusters, dbHotspots) = dbClusters)
    ~> ~Stale

---------------------------------------------------------------------------
(* The route optimizer, checked under SpecRoute *)

RouteIds == {trip.route[k].id : k \in 1..Len(trip.route)}

\* C22: the route returned for a node set, with or without a start point,
\* contains each requested id exactly once, its order fields are 0..|N|-1 in
\* traversal sequence, and total_distance_m >= 0.
C22_RouteCompleteness ==
  trip.called =>
    /\ Len(trip.route) = Len(trip.nodes)
    /\ \A n \in 1..Len(trip.nodes) :
         Cardinality({k \in 1..Len(trip.route) :
                        trip.route[k].id = trip.nodes[n].id}) = 1
    /\ \A k \in 1..Len(trip.route) : trip.route[k].order = k - 1
    /\ trip.total_distance_m >= 0

\* A route of four nodes from a start point, visited in another order than
\* the requested one.
C22_Witness ==
  /\ trip.called
  /\ Len(trip.start) = 1
  /\ Len(trip.route) = 4
  /\ \E k \in 1..4 : trip.route[k].id # trip.nodes[k].id

\* The nearest-neighbor route as the answer lists it.
BaselineIds == [k \in 1..Len(trip.baseline) |-> trip.baseline[k].id]

FinalIds == [k \in 1..Len(trip.route) |-> trip.route[k].id]

\* C23: with at least 4 nodes the total distance after the single 2-opt
\* pass is at most that of the nearest-neighbor route of the same input, and
\* a reversal was applied only where it strictly reduced the total.
C23_TwoOptNonRegression ==
  (trip.called /\ Len(trip.nodes) >= 4) =>
    /\ trip.total_distance_m <= routeDistance(trip.baseline, trip.start)
    /\ FinalIds # BaselineIds =>
         trip.total_distance_m < routeDistance(trip.baseline, trip.start)

\* The 2-opt pass reversed a segment of the nearest-neighbor route.
C23_Witness ==
  /\ trip.called
  /\ Len(trip.nodes) >= 4
  /\ FinalIds # BaselineIds
  /\ trip.total_distance_m < routeDistance(trip.baseline, trip.start)


---------------------------------------------------------------------------
(* Properties of the stored hotspots and clusters, checked under SpecStore *)

\* h is one of the member_hotspots of c.
ListedIn(h, c) == \E i \in 1..Len(c.member_hotspots) : c.member_hotspots[i] = h.id

\* No request is between two of its database calls.
Quiescent == \A r \in Requests : reqs[r].pc \in {"idle", "done"}

\* C24: whenever no request is under way, each hotspot's cluster_id is
\* null or the id of a stored cluster whose member_hotspots lists the hotspot.
C24_NoDanglingAssignment ==
  Quiescent =>
    \A h \in dbHotspots :
      \/ h.cluster_id = <<>>
      \/ \E c \in dbClusters : h.cluster_id = <<c.id>> /\ ListedIn(h, c)


---------------------------------------------------------------------------
(* Properties of the service, checked under Spec                           *)

\* The stored active clusters of one algorithm that list hotspot id.
ActiveClustersOf(id, algorithm) ==
  {c \in dbClusters :
     /\ c.status = "active"
     /\ c.algorithm = algorithm
     /\ \E i \in 1..Len(c.member_hotspots) : c.member_hotspots[i] = id}

\* C25: each hotspot is a member of at most one stored active cluster of a
\* given algorithm, also while clustering requests interleave.
C25_OneAuthoritativePass ==
  \A id \in 1..MaxHotspotId : \A algorithm \in ClusterAlgorithmEnum :
    Cardinality(ActiveClustersOf(id, algorithm)) <= 1


\* The stored active clusters of the algorithm request r asks for.
StoredFor(r) ==
  {c \in dbClusters : /\ c.algorithm = reqs[r].clusteringOptions.algorithm
                      /\ c.status = "active"}

\* Request r is a GET /api/clustering/clusters.
IsGetClusters(r) == reqs[r].route = "GET /api/clustering/clusters"

\* The step of r is the return of its Cluster.find.
FindReturns(r) == IsGetClusters(r) /\ reqs[r].pc = "find" /\ reqs'[r] # reqs[r]

\* The step of r takes it to the clustering of the fetched hotspots.
StartsClustering(r) ==
  reqs'[r].route = "GET /api/clustering/clusters"
    /\ reqs'[r].pc = "fetch" /\ reqs[r].pc # "fetch"

PostClustersAnswered(r, status) ==
  /\ reqs[r].route = "POST /api/clustering/clusters"
  /\ reqs[r].pc = "done"
  /\ reqs[r].response.status = status

\* C27: when a POST /api/clustering/clusters is answered 500, the stored
\* clusters and the hotspots' cluster assignments are those of before the
\* request.
C27_FailedPostLeavesStore ==
  \A r \in SerialRequests :
    PostClustersAnswered(r, 500) =>
      StoredClustering(dbClusters, dbHotspots) = reqs[r].before[1]


\* Request r is a DELETE /api/hotspots/:id answered 200.
DeleteHotspotSucceeded(r) ==
  /\ reqs[r].route = "DELETE /api/hotspots/:id"
  /\ reqs[r].pc = "done"
  /\ reqs[r].response.status = 200

\* C28: once DELETE /api/hotspots/:id has succeeded, no stored cluster of
\* any algorithm lists the deleted hotspot among its member_hotspots.
C28_DeletedHotspotUnlisted ==
  \A r \in SerialRequests :
    DeleteHotspotSucceeded(r) =>
      \A c \in dbClusters :
        \A i \in 1..Len(c.member_hotspots) : c.member_hotspots[i] # reqs[r].target


---------------------------------------------------------------------------
(* Properties of saving a hotspot document, checked under SpecSave         *)

---------------------------------------------------------------------------
(* Properties of the submission form, checked under SpecForm               *)

\* The other required fields are filled: description, name, an email
\* address of the expected form.
RequiredFilled ==
  /\ TrimmedNonEmpty(form.description)
  /\ TrimmedNonEmpty(form.reporterName)
  /\ EmailPattern(form.reporterEmail)

\* Latitude, longitude and severity are within their ranges.
WithinRanges ==
  /\ form.lat >= -90 * UnitsPerDegree /\ form.lat <= 90 * UnitsPerDegree
  /\ form.lng >= -180 * UnitsPerDegree /\ form.lng <= 180 * UnitsPerDegree
  /\ form.severity >= 1 /\ form.severity <= 10

\* C30: with the other required fields filled, a validated form is
\* submitted exactly when latitude, longitude and severity are within their
\* ranges, latitude 0 and longitude 0 included.
C30_AcceptsExactlyInRange ==
  (form.validated /\ RequiredFilled) => (form.submitted <=> WithinRanges)

============================================================================
